---- MODULE Spec2Model ----
(***************************************************************************)
(* A model of the Safe transaction decoder (multisend-ui/utils/decoder.ts) *)
(* and of the Safe hash calculator                                         *)
(* (multisend-ui/utils/checksums/safeHashesCalculator.ts).                 *)
(*                                                                         *)
(* JavaScript strings are sequences of one-character strings.  A           *)
(* JavaScript number is an integer or NaN.        The module holds three   *)
(* specifications over disjoint groups of variables:                       *)
(*   SpecDecode  the synchronous decode functions applied to inputs,       *)
(*   SpecLookup  concurrent tryDecodeFunctionData calls sharing the        *)
(*               OpenChain selector caches,                                *)
(*   SpecHash    calculateHashes applied to version strings.               *)
(* Further specifications, each over its own variables, follow them:       *)
(*   SpecNormalize  the two normalizeHexString functions applied twice.    *)
(*   SpecParse      parseSafeAddressInput applied to addresses and URLs.   *)
(*   SpecForm       overlapping invocations of fetchFromApiAndSetForm.     *)
(*   SpecList       the decode effect of the TransactionList component.    *)
(*   SpecLoop       the loop of decodeMultiSendTransactions pass by pass.  *)
(***************************************************************************)
EXTENDS Integers, Sequences, FiniteSets, TLC

VARIABLES
    dFn, dInput, dOutcome,                       \* SpecDecode
    openChainResolvedCache, openChainSignatureCache,  \* SpecLookup: caches
    requests, calls,                             \* requests sent, calls made
    issued, cleared, resolvedBy, firstResolved,  \* what happened so far
    hPhase, hChainId, hVersionA, hVersionB,      \* SpecHash
    hCompare, hResultA, hResultB,
    nFn, nInput, nOnce, nTwice,                  \* SpecNormalize
    pCase, pDone, pResult,                       \* SpecParse
    form, isApiFetching, invocations,            \* SpecForm
    propTransactions, mounted, effectsPending,   \* SpecList
    effectRuns, decodedFunctions,
    whileData, whilePhase, whileIndex,           \* SpecLoop
    whilePushed, whileVisited

decodeVars == <<dFn, dInput, dOutcome>>
lookupVars == <<openChainResolvedCache, openChainSignatureCache, requests,
                calls, issued, cleared, resolvedBy, firstResolved>>
hashVars == <<hPhase, hChainId, hVersionA, hVersionB, hCompare, hResultA,
              hResultB>>
normVars == <<nFn, nInput, nOnce, nTwice>>
\* The variables of the specifications other than the first three.
parseVars == <<pCase, pDone, pResult>>
formVars == <<form, isApiFetching, invocations>>
listVars == <<propTransactions, mounted, effectsPending, effectRuns,
              decodedFunctions>>
loopVars == <<whileData, whilePhase, whileIndex, whilePushed, whileVisited>>
otherVars == <<normVars, parseVars, formVars, listVars, loopVars>>
vars == <<decodeVars, lookupVars, hashVars, otherVars>>

(***************************************************************************)
(* JavaScript primitives                                                   *)
(***************************************************************************)

\* Numbers at or above MaxNumber are represented by MaxNumber, and numbers
\* at or below -MaxNumber by -MaxNumber: MaxNumber is above the length of
\* every string of the model, so that an index or a length that large acts
\* as any larger one does.
MaxNumber == 1000000
Saturate(n) ==
    IF n > MaxNumber THEN MaxNumber
    ELSE IF n < -MaxNumber THEN -MaxNumber ELSE n

\* The NaN of JavaScript numbers: an integer that is no number of the model.
NaN == -MaxNumber - 1

Digits == {"0", "1", "2", "3", "4", "5", "6", "7", "8", "9"}
HexLower == Digits \cup {"a", "b", "c", "d", "e", "f"}
HexUpper == {"A", "B", "C", "D", "E", "F"}
HexChars == HexLower \cup HexUpper

HexVal(c) ==
    CASE c = "0" -> 0 [] c = "1" -> 1 [] c = "2" -> 2 [] c = "3" -> 3
      [] c = "4" -> 4 [] c = "5" -> 5 [] c = "6" -> 6 [] c = "7" -> 7
      [] c = "8" -> 8 [] c = "9" -> 9
      [] c \in {"a", "A"} -> 10 [] c \in {"b", "B"} -> 11
      [] c \in {"c", "C"} -> 12 [] c \in {"d", "D"} -> 13
      [] c \in {"e", "E"} -> 14 [] c \in {"f", "F"} -> 15

DigitChar(n) ==
    CASE n = 0 -> "0" [] n = 1 -> "1" [] n = 2 -> "2" [] n = 3 -> "3"
      [] n = 4 -> "4" [] n = 5 -> "5" [] n = 6 -> "6" [] n = 7 -> "7"
      [] n = 8 -> "8" [] n = 9 -> "9"

ToLowerChar(c) ==
    CASE c = "A" -> "a" [] c = "B" -> "b" [] c = "C" -> "c" [] c = "D" -> "d"
      [] c = "E" -> "e" [] c = "F" -> "f" [] c = "X" -> "x" [] OTHER -> c

\* String.prototype.toLowerCase
ToLowerCase(s) == [i \in 1..Len(s) |-> ToLowerChar(s[i])]

\* String.prototype.startsWith
StartsWith(s, p) == Len(s) >= Len(p) /\ SubSeq(s, 1, Len(p)) = p

\* An index argument of slice: NaN counts as 0, a negative index counts from
\* the end, and the result is clamped to 0..len.
SliceIndex(n, len) ==
    IF n = NaN THEN 0
    ELSE IF n < 0 THEN (IF len + n < 0 THEN 0 ELSE len + n)
    ELSE IF n > len THEN len ELSE n

\* String.prototype.slice(start, end), 0-based.
Slice(s, start, end) ==
    LET a == SliceIndex(start, Len(s))
        b == SliceIndex(end, Len(s))
    IN  IF a < b THEN SubSeq(s, a + 1, b) ELSE <<>>

\* a + b and a * b on JavaScript numbers.
Plus(a, b) == IF a = NaN \/ b = NaN THEN NaN ELSE Saturate(a + b)
Times(a, b) == IF a = NaN \/ b = NaN THEN NaN ELSE Saturate(a * b)
\* The length in hex characters, not converted back to bytes.
NotHalved(a) == a
\* a / 2 where a is NaN or even
Half(a) == IF a = NaN THEN NaN ELSE a \div 2
\* a < b on JavaScript numbers: false when either is NaN.
Less(a, b) == a # NaN /\ b # NaN /\ a < b

Min(S) == CHOOSE m \in S : \A k \in S : m <= k

\* The value of the hex digits s[1..n], most significant first.  More than
\* six significant digits are above MaxNumber.
HexDigitsValue(s, n) ==
    LET nonZero == {i \in 1..n : s[i] # "0"}
        sig == IF nonZero = {} THEN 0 ELSE n - Min(nonZero) + 1
        D(k) == IF k < sig THEN HexVal(s[n - k]) ELSE 0
    IN  IF sig > 6 THEN MaxNumber
        ELSE Saturate(D(0) + 16 * D(1) + 256 * D(2) + 4096 * D(3)
                        + 65536 * D(4) + 1048576 * D(5))

\* The value of the longest run of hex digits that s starts with.
HexPrefixValue(s) ==
    LET bad == {i \in 1..Len(s) : s[i] \notin HexChars}
    IN  HexDigitsValue(s, IF bad = {} THEN Len(s) ELSE Min(bad) - 1)

\* parseInt(s, 16): white space (the space, in the model) is skipped, then
\* come an optional sign, an optional 0x or 0X and the longest run of hex
\* digits; NaN when that run is empty.
SkipWhiteSpace(s) ==
    LET nonSpace == {i \in 1..Len(s) : s[i] # " "}
    IN  IF nonSpace = {} THEN <<>> ELSE SubSeq(s, Min(nonSpace), Len(s))

HasSign(t) == t # <<>> /\ t[1] \in {"+", "-"}
StripSign(t) == IF HasSign(t) THEN Tail(t) ELSE t
StripRadixPrefix(u) ==
    IF Len(u) >= 2 /\ u[1] = "0" /\ u[2] \in {"x", "X"}
    THEN SubSeq(u, 3, Len(u)) ELSE u

\* The digits after the sign and the prefix, with the sign `negative`.
ParseHexDigits(body, negative) ==
    IF body = <<>> \/ body[1] \notin HexChars THEN NaN
    ELSE IF negative THEN 0 - HexPrefixValue(body)
    ELSE HexPrefixValue(body)

ParseIntSigned(t) ==
    ParseHexDigits(StripRadixPrefix(StripSign(t)), t # <<>> /\ t[1] = "-")

ParseIntHex(s) == ParseIntSigned(SkipWhiteSpace(s))

RECURSIVE ToDecimal(_)
\* Number.prototype.toString / BigNumber.prototype.toString for n >= 0.
ToDecimal(n) ==
    IF n < 10 THEN <<DigitChar(n)>>
    ELSE Append(ToDecimal(n \div 10), DigitChar(n % 10))

\* ethers.BigNumber.from('0x' + hex): a string that does not match
\* /^-?0x[0-9a-f]+$/i (nor a decimal number) throws "invalid BigNumber
\* string"; so does '0x' alone.
BigNumberFromHex(hex) ==
    IF hex # <<>> /\ \A i \in 1..Len(hex) : hex[i] \in HexChars
    THEN [threw |-> FALSE, value |-> HexPrefixValue(hex)]
    ELSE [threw |-> TRUE, value |-> 0]

(***************************************************************************)
(* decoder.ts: normalizeHexString and the decode functions                 *)
(***************************************************************************)

Prefix0x == <<"0", "x">>
MultiSendSelector == <<"0", "x", "8", "d", "8", "0", "f", "f", "0", "a">>
ZeroAddress == Prefix0x \o [i \in 1..40 |-> "0"]

\* The widths of the fields of a packed entry, in hex characters.
OperationChars == 2
AddressChars == 40
WordChars == 64

\* normalizeHexString without the removal of the prefix.
normalizeHexStringKeepingPrefix(hexString) ==
    IF hexString = <<>> THEN Prefix0x
    ELSE IF Len(hexString) % 2 # 0
         THEN Prefix0x \o <<"0">> \o hexString
         ELSE Prefix0x \o hexString

normalizeHexString(hexString) ==
    IF hexString = <<>> THEN Prefix0x
    ELSE LET withoutPrefix == IF StartsWith(hexString, Prefix0x)
                              THEN Slice(hexString, 2, Len(hexString))
                              ELSE hexString
         IN  IF withoutPrefix = <<>> THEN Prefix0x
             ELSE IF Len(withoutPrefix) % 2 # 0
                  THEN Prefix0x \o <<"0">> \o withoutPrefix
                  ELSE Prefix0x \o withoutPrefix

\* One DecodedTransaction.
DecodedTransaction(operation, to, value, dataLength, data) ==
    [operation |-> operation, to |-> to, value |-> value,
     dataLength |-> dataLength, data |-> data]

\* What a call yields: the returned transactions, or a thrown error.
Returned(txs) == [threw |-> FALSE, txs |-> txs]
Thrown == [threw |-> TRUE, txs |-> <<>>]

\* One pass through the body of the while loop of
\* decodeMultiSendTransactions, from currentIndex (a number below the
\* length of hexData): whether BigNumber.from threw and, when it did not,
\* the transaction pushed and currentIndex at the end of the body.
MultiSendIteration(hexData, currentIndex) ==
    LET operation == ParseIntHex(Slice(hexData, currentIndex,
                                       currentIndex + OperationChars))
        i1 == currentIndex + OperationChars
        to == Prefix0x \o Slice(hexData, i1, i1 + AddressChars)
        i2 == i1 + AddressChars
        valueHex == Slice(hexData, i2, i2 + WordChars)
        big == BigNumberFromHex(valueHex)
        i3 == i2 + WordChars
        dataLengthHex == Slice(hexData, i3, i3 + WordChars)
        dataLength == Times(ParseIntHex(dataLengthHex), 2)
        i4 == i3 + WordChars
        txData == Prefix0x \o Slice(hexData, i4, Plus(i4, dataLength))
        i5 == Plus(i4, dataLength)
    IN  IF big.threw
        THEN [threw |-> TRUE, tx |-> <<>>, currentIndex |-> currentIndex]
        ELSE [threw |-> FALSE,
              tx |-> DecodedTransaction(operation, to, ToDecimal(big.value),
                                        Half(dataLength), txData),
              currentIndex |-> i5]

RECURSIVE MultiSendLoop(_, _, _)
\* The while loop of decodeMultiSendTransactions, for the inputs on which
\* it ends.
MultiSendLoop(hexData, currentIndex, transactions) ==
    IF ~Less(currentIndex, Len(hexData))
    THEN Returned(transactions)
    ELSE LET pass == MultiSendIteration(hexData, currentIndex)
         IN  IF pass.threw
             THEN Thrown
             ELSE MultiSendLoop(hexData, pass.currentIndex,
                                Append(transactions, pass.tx))

decodeMultiSendTransactions(data) ==
    LET normalizedData == normalizeHexString(data)
        hexData == IF StartsWith(normalizedData, Prefix0x)
                   THEN Slice(normalizedData, 2, Len(normalizedData))
                   ELSE normalizedData
    IN  IF hexData = <<>> THEN Returned(<<>>)
        ELSE MultiSendLoop(hexData, 0, <<>>)

decodeRegularFunctionCall(data) ==
    LET normalizedData == normalizeHexString(data)
        functionSignature == Slice(normalizedData, 0, 10)
        addressParam == Slice(normalizedData, 8, 8 + WordChars)
        to == IF functionSignature = MultiSendSelector
                 /\ Len(normalizedData) >= 8 + WordChars
              THEN Prefix0x \o Slice(addressParam, 24, Len(addressParam))
              ELSE ZeroAddress
    IN  IF Len(normalizedData) < 10 THEN Returned(<<>>)
        ELSE Returned(<<DecodedTransaction(0, to, <<"0">>,
                                           Len(normalizedData) \div 2,
                                           normalizedData)>>)

\* A DecodedFunctionData.  params maps a key to a string; error is NoError
\* when the field is absent; source is "manual", "openchain" or NoSource.
NoError == ""
NoSource == "none"
NoParams == [k \in {} |-> <<>>]
DecodedFunctionData(name, params, error, source, candidates) ==
    [name |-> name, params |-> params, error |-> error,
     source |-> source, candidates |-> candidates]

\* A function name: a signature, or `Unknown Function (<selector>)`.
SignatureName(text) == [text |-> text, selector |-> <<>>]
UnknownFunctionNameLowered(functionSignature) ==
    [text |-> "Unknown Function", selector |-> ToLowerCase(functionSignature)]
UnknownFunctionName(functionSignature) ==
    [text |-> "Unknown Function", selector |-> functionSignature]
MultiSendName == SignatureName("multiSend(bytes)")

manualResult(name, params, error) ==
    DecodedFunctionData(name, params, error, "manual", <<>>)

openChainResult(name, params, error, candidates) ==
    DecodedFunctionData(name, params, error, "openchain", candidates)

\* tryDecodeMultiSend with the count taken from a second reading of the
\* bytes that does not stop at their declared length.
tryDecodeMultiSendCountingRest(data) ==
    LET abiEncodedParams == Slice(data, 10, Len(data))
        offsetHexChars == Times(ParseIntHex(Slice(abiEncodedParams, 0,
                                                  WordChars)), 2)
        lengthHexChars ==
            Times(ParseIntHex(Slice(abiEncodedParams, offsetHexChars,
                                    Plus(offsetHexChars, WordChars))), 2)
        start == Plus(offsetHexChars, WordChars)
        transactionsData ==
            Slice(abiEncodedParams, start, Plus(start, lengthHexChars))
        inner == decodeMultiSendTransactions(
                     Prefix0x \o Slice(abiEncodedParams, start,
                                       Len(abiEncodedParams)) \o <<"0", "0">>)
        decodedTransactions == IF inner.threw THEN <<>> ELSE inner.txs
    IN  IF \/ Len(abiEncodedParams) < WordChars
           \/ Less(Len(abiEncodedParams), start)
           \/ Less(Len(abiEncodedParams), Plus(start, lengthHexChars))
        THEN manualResult(MultiSendName, NoParams,
                 "Failed to decode multiSend function parameters")
        ELSE manualResult(MultiSendName,
                 [k \in {"transactions", "decodedTransactionsCount"} |->
                     IF k = "transactions" THEN transactionsData
                     ELSE ToDecimal(Len(decodedTransactions))],
                 NoError)

\* The multiSend(bytes) branch of tryDecodeFunctionData: the ABI-encoded
\* dynamic bytes parameter is [offset][...][length][data].
tryDecodeMultiSend(data) ==
    LET abiEncodedParams == Slice(data, 10, Len(data))
        offsetHex == Slice(abiEncodedParams, 0, WordChars)
        offsetBytes == ParseIntHex(offsetHex)
        offsetHexChars == Times(offsetBytes, 2)
        lengthHex == Slice(abiEncodedParams, offsetHexChars,
                           Plus(offsetHexChars, WordChars))
        lengthBytes == ParseIntHex(lengthHex)
        lengthHexChars == Times(lengthBytes, 2)
        transactionsData ==
            Slice(abiEncodedParams, Plus(offsetHexChars, WordChars),
                  Plus(Plus(offsetHexChars, WordChars), lengthHexChars))
        inner == decodeMultiSendTransactions(Prefix0x \o transactionsData)
        decodedTransactions == IF inner.threw THEN <<>> ELSE inner.txs
    IN  IF Len(abiEncodedParams) < WordChars
        THEN manualResult(MultiSendName, NoParams,
                 "Failed to decode multiSend function parameters: Data too short to read offset")
        ELSE IF Less(Len(abiEncodedParams), Plus(offsetHexChars, WordChars))
        THEN manualResult(MultiSendName, NoParams,
                 "Failed to decode multiSend function parameters: Data too short to read length")
        ELSE IF Less(Len(abiEncodedParams),
                     Plus(Plus(offsetHexChars, WordChars), lengthHexChars))
        THEN manualResult(MultiSendName, NoParams,
                 "Failed to decode multiSend function parameters: Data too short to read data")
        ELSE manualResult(MultiSendName,
                 [k \in {"transactions", "decodedTransactionsCount"} |->
                     IF k = "transactions" THEN transactionsData
                     ELSE ToDecimal(Len(decodedTransactions))],
                 NoError)

\* decodedOuter.params.transactions as a condition: present and not ''.
HasTransactions(decoded) ==
    /\ "transactions" \in DOMAIN decoded.params
    /\ decoded.params["transactions"] # <<>>

\* Steps 2 and 3 of decodeTransactionData: a direct bundle, and when that
\* throws, a single regular call.
decodeBundleOrCall(normalizedData) ==
    LET direct == decodeMultiSendTransactions(normalizedData)
    IN  IF ~direct.threw THEN direct
        ELSE decodeRegularFunctionCall(normalizedData)

\* decodeTransactionData with step 1 falling through to steps 2 and 3 when
\* the parameters do not decode.
decodeTransactionDataFallingThrough(data) ==
    LET normalizedData == normalizeHexString(data)
        decodedOuter == tryDecodeMultiSend(normalizedData)
    IN  IF normalizedData = Prefix0x THEN Returned(<<>>)
        ELSE IF /\ StartsWith(normalizedData, MultiSendSelector)
                /\ decodedOuter.name = MultiSendName
                /\ HasTransactions(decodedOuter)
        THEN decodeMultiSendTransactions(
                 Prefix0x \o decodedOuter.params["transactions"])
        ELSE decodeBundleOrCall(normalizedData)

decodeTransactionData(data) ==
    LET normalizedData == normalizeHexString(data)
        decodedOuter == tryDecodeMultiSend(normalizedData)
    IN  IF normalizedData = Prefix0x THEN Returned(<<>>)
        ELSE IF StartsWith(normalizedData, MultiSendSelector)
        THEN IF decodedOuter.name = MultiSendName
                /\ HasTransactions(decodedOuter)
             THEN decodeMultiSendTransactions(
                      Prefix0x \o decodedOuter.params["transactions"])
             ELSE Thrown
        ELSE decodeBundleOrCall(normalizedData)

(***************************************************************************)
(* SpecDecode: the decode functions applied to inputs                      *)
(***************************************************************************)

\* The most entries a generated bundle holds.
MaxTxs == 2

Zeros(n) == [i \in 1..n |-> "0"]

HexDigitChar(n) ==
    IF n < 10 THEN DigitChar(n)
    ELSE CASE n = 10 -> "a" [] n = 11 -> "b" [] n = 12 -> "c"
           [] n = 13 -> "d" [] n = 14 -> "e" [] n = 15 -> "f"

RECURSIVE ToHex(_)
ToHex(n) ==
    IF n < 16 THEN <<HexDigitChar(n)>>
    ELSE Append(ToHex(n \div 16), HexDigitChar(n % 16))

\* n as a 32-byte big-endian word.
Word(n) == Zeros(WordChars - Len(ToHex(n))) \o ToHex(n)

AddrLower == [i \in 1..AddressChars |-> IF i % 2 = 1 THEN "a" ELSE "b"]
AddrMixed == [i \in 1..AddressChars |-> IF i % 2 = 1 THEN "C" ELSE "d"]
TransferSelector == <<"a", "9", "0", "5", "9", "c", "b", "b">>
ClaimSelector == <<"1", "e", "8", "3", "4", "0", "9", "a">>

\* A packed entry: operation, target, value, data length in bytes, data.
Entry(op, to, value, data) ==
    op \o to \o Word(value) \o Word(Len(data) \div 2) \o data

Entries ==
    { Entry(<<"0", "0">>, AddrLower, 0, TransferSelector),
      Entry(<<"0", "1">>, AddrMixed, 255, <<>>) }

RECURSIVE BundlesOf(_)
BundlesOf(n) ==
    IF n = 0 THEN {<<>>}
    ELSE LET shorter == BundlesOf(n - 1)
         IN  shorter \cup {b \o e : b \in shorter, e \in Entries}

Bundles == BundlesOf(MaxTxs)

Prefixes(s) == {SubSeq(s, 1, k) : k \in 0..Len(s)}

\* A bundle with one character replaced by a character that is no hex digit:
\* in the operation, the target, the value and the data length.
CorruptAt == {1, 5, 50, 120, 170}
Corrupted(b) ==
    {[b EXCEPT ![p] = "z"] : p \in {q \in CorruptAt : q <= Len(b)}}

\* multiSend(bytes) call data around a bundle, the bytes at `offset`.
Wrapped(b, offset) ==
    MultiSendSelector \o Word(offset) \o Zeros(2 * offset - WordChars)
        \o Word(Len(b) \div 2) \o b

WrappedInputs ==
    UNION {Prefixes(Wrapped(b, 32)) : b \in BundlesOf(1)}
      \cup {Wrapped(b, 64) : b \in BundlesOf(1)}
      \cup {MultiSendSelector \o Word(64) \o Word(0),
            MultiSendSelector \o [Word(32) EXCEPT ![1] = "z"]
                \o Word(0)}

RegularCalls ==
    { Prefix0x \o ClaimSelector \o Zeros(24) \o AddrLower,
      Prefix0x \o <<"a", "b", "c", "d", "e", "f", "1", "2">> }

DecodeInputs ==
    UNION {{Prefix0x \o t : t \in Prefixes(b)} : b \in Bundles}
      \cup UNION {{Prefix0x \o c : c \in Corrupted(b)} : b \in Bundles}
      \cup Bundles
      \cup WrappedInputs
      \cup RegularCalls

InitDecode ==
    /\ dFn = "none"
    /\ dInput = <<>>
    /\ dOutcome = Returned(<<>>)

CallDecodeMultiSendTransactions ==
    /\ UNCHANGED <<lookupVars, hashVars, otherVars>>
    /\ dFn = "none"
    /\ \E data \in DecodeInputs :
           /\ dFn' = "decodeMultiSendTransactions"
           /\ dInput' = data
           /\ dOutcome' = decodeMultiSendTransactions(data)

CallDecodeRegularFunctionCall ==
    /\ UNCHANGED <<lookupVars, hashVars, otherVars>>
    /\ dFn = "none"
    /\ \E data \in DecodeInputs :
           /\ dFn' = "decodeRegularFunctionCall"
           /\ dInput' = data
           /\ dOutcome' = decodeRegularFunctionCall(data)

CallDecodeTransactionData ==
    /\ UNCHANGED <<lookupVars, hashVars, otherVars>>
    /\ dFn = "none"
    /\ \E data \in DecodeInputs :
           /\ dFn' = "decodeTransactionData"
           /\ dInput' = data
           /\ dOutcome' = decodeTransactionData(data)

NextDecode ==
    \/ CallDecodeMultiSendTransactions
    \/ CallDecodeRegularFunctionCall
    \/ CallDecodeTransactionData

(***************************************************************************)
(* SpecLookup: tryDecodeFunctionData calls that share the OpenChain caches *)
(***************************************************************************)

\* The most tryDecodeFunctionData calls, and clearOpenChainCaches calls.
MaxCalls == 3
MaxClears == 1
\* The most requests sent to the signature service.
MaxRequests == 2

SelectorA == <<"0", "x", "f", "c", "a", "3", "b", "5", "a", "a">>
SelectorAUpper == <<"0", "x", "F", "C", "A", "3", "B", "5", "A", "A">>
SelectorB == <<"0", "x", "1", "2", "3", "4", "5", "6", "7", "8">>

\* Call data given to tryDecodeFunctionData.
LookupData == {SelectorA \o Zeros(WordChars), SelectorAUpper, SelectorB}

\* multiSend(bytes) call data: an empty bundle, a bundle of one entry, and
\* bytes that end after the target of an entry.
MultiSendData ==
    { Wrapped(<<>>, 32),
      Wrapped(Entry(<<"0", "0">>, AddrLower, 0, TransferSelector), 32),
      Wrapped(<<"0", "0">> \o AddrLower, 32) }

\* The multiSend selector with its letters in upper case.
MultiSendSelectorUpper == <<"0", "x", "8", "D", "8", "0", "F", "F", "0", "A">>
UpperCased(data) == MultiSendSelectorUpper \o Slice(data, 10, Len(data))

\* transfer(address,uint256) call data, whole and without its arguments.
TransferSignature == Prefix0x \o TransferSelector
TransferData ==
    { TransferSignature \o Zeros(24) \o AddrMixed \o Word(5),
      TransferSignature }

ManualData == MultiSendData \cup TransferData
CallData ==
    LookupData \cup ManualData \cup {UpperCased(Wrapped(<<>>, 32))}
        \cup {<<>>, Prefix0x}

\* What the signature service answers.  An "ok" answer has a JSON body: the
\* key under result.function (NoKey when there is no such object) and its
\* entries; an entry field that is absent is "".
NoKey == <<>>
SignatureEntry(name, signature, text_signature) ==
    [name |-> name, signature |-> signature, text_signature |-> text_signature]
Response(kind, key, entries) == [kind |-> kind, key |-> key, entries |-> entries]
Responses(normalized) ==
    { Response("ok", SelectorAUpper,
               <<SignatureEntry("", "setMinter(address)", ""),
                 SignatureEntry("", " ", "mint()"),
                 SignatureEntry("", "", "setMinter(address)")>>),
      Response("ok", SelectorAUpper,
               <<SignatureEntry("mint()", "", ""),
                 SignatureEntry("", "setMinter(address)", "")>>),
      Response("ok", normalized, <<>>),
      Response("status", NoKey, <<>>),
      Response("network", NoKey, <<>>),
      Response("json", NoKey, <<>>) }

\* s.trim().length > 0 for the strings of the model.
NonBlank(s) == s \notin {"", " "}

\* The signature an entry yields, or "" (null) when it has none.
EntrySignature(entry) ==
    IF NonBlank(entry.name) THEN entry.name
    ELSE IF NonBlank(entry.signature) THEN entry.signature
    ELSE IF NonBlank(entry.text_signature) THEN entry.text_signature
    ELSE ""

RECURSIVE UniqueSignatures(_, _)
\* Array.from(new Set(signatures)) after .filter(Boolean): first occurrences
\* in order.
UniqueSignatures(entries, acc) ==
    IF entries = <<>> THEN acc
    ELSE LET sig == EntrySignature(Head(entries))
             seen == \E i \in 1..Len(acc) : acc[i] = sig
         IN  UniqueSignatures(Tail(entries),
                 IF sig = "" \/ seen THEN acc ELSE Append(acc, sig))

\* How the lookup promise of fetchOpenChainFunctionSignatures settles on a
\* response: the value it resolves with.  It never rejects: every failure is
\* caught and yields [].
LookupValue(normalized, response) ==
    IF response.kind # "ok" THEN <<>>
    ELSE IF response.key # NoKey /\ ToLowerCase(response.key) = normalized
    THEN UniqueSignatures(response.entries, <<>>)
    ELSE <<>>
LookupRejects(normalized, response) == FALSE

\* The cache key without the lower-casing.
CacheKeyAsGiven(selector) == selector

\* The key of both caches.
CacheKey(selector) == ToLowerCase(selector)

\* The number of 32-byte arguments of a signature the service may return.
ArgumentWords(signature) == IF signature = "mint()" THEN 0 ELSE 1

\* The selector of a signature: the first 4 bytes of its keccak256 hash.
Sighash(signature) ==
    IF signature = "setMinter(address)" THEN SelectorA
    ELSE <<"0", "x", "1", "2", "4", "9", "c", "5", "8", "b">>

\* tryDecodeUsingSignature: whether ethers decodes the data with the
\* signature (the data has the signature's selector and the arguments'
\* words after it).
DecodesUsingSignature(signature, data) ==
    /\ ToLowerCase(Slice(data, 0, 10)) = Sighash(signature)
    /\ Len(data) >= 10 + WordChars * ArgumentWords(signature)

\* openChainOutcome trying the first candidate only.
openChainOutcomeFirstOnly(data, functionSignature, rejected, sigs) ==
    IF Len(sigs) > 0
    THEN IF DecodesUsingSignature(sigs[1], data)
         THEN openChainResult(SignatureName(sigs[1]),
                  [k \in {"args"} |-> Slice(data, 10, Len(data))],
                  NoError, sigs)
         ELSE openChainResult(SignatureName(sigs[1]), NoParams,
                  "Failed to decode using OpenChain signature candidates",
                  sigs)
    ELSE DecodedFunctionData(UnknownFunctionName(functionSignature),
             [k \in {"rawData"} |-> data], NoError, NoSource, <<>>)

\* The end of tryDecodeFunctionData, once the lookup has settled.
openChainOutcome(data, functionSignature, rejected, openChainSignatures) ==
    LET decoding == {i \in 1..Len(openChainSignatures) :
                        DecodesUsingSignature(openChainSignatures[i], data)}
        first == CHOOSE i \in decoding : \A k \in decoding : i <= k
    IN  IF rejected
        THEN DecodedFunctionData(UnknownFunctionName(functionSignature),
                 [k \in {"rawData"} |-> data], "OpenChain lookup failed",
                 NoSource, <<>>)
        ELSE IF Len(openChainSignatures) > 0
        THEN IF decoding # {}
             THEN openChainResult(SignatureName(openChainSignatures[first]),
                      [k \in {"args"} |-> Slice(data, 10, Len(data))],
                      NoError, openChainSignatures)
             ELSE openChainResult(SignatureName(openChainSignatures[1]),
                      NoParams,
                      "Failed to decode using OpenChain signature candidates",
                      openChainSignatures)
        ELSE DecodedFunctionData(UnknownFunctionName(functionSignature),
                 [k \in {"rawData"} |-> data], NoError, NoSource, <<>>)

EmptyMap == [k \in {} |-> <<>>]
MapSet(map, key, value) ==
    [k \in DOMAIN map \cup {key} |-> IF k = key THEN value ELSE map[k]]
MapDelete(map, key) == [k \in DOMAIN map \ {key} |-> map[k]]

NoResult == DecodedFunctionData(SignatureName(""), NoParams, NoError,
                                NoSource, <<>>)
NoPromise == 0

\* Requests in flight and settled: the indices in `requests`.
InFlight == {r \in 1..Len(requests) : requests[r].state = "inflight"}
Settled == {r \in 1..Len(requests) : requests[r].state = "settled"}

\* One call of tryDecodeFunctionData, as far as it runs before it first
\* waits.  state is "null" (it returned null), "done" (it returned result)
\* or "awaiting" (it waits for the lookup promise `promise`); sigs is what
\* the lookup gave it.  The other fields record when the call was made:
\* the clears so far, the requests in flight, the selectors in the resolved
\* cache, the request whose cached
\* result answered it, and the list the first lookup for the selector
\* resolved with since the last clear.
CallRecord(data, state, promise, sigs, result) ==
    LET normalized == ToLowerCase(Slice(data, 0, 10))
    IN  [data |-> data, functionSignature |-> Slice(data, 0, 10),
         state |-> state, promise |-> promise, sigs |-> sigs,
         result |-> result, clears |-> cleared, inFlightAtCall |-> InFlight,
         cachedAtCall |-> DOMAIN openChainResolvedCache,
         answeredBy |-> IF state = "done" /\ normalized \in DOMAIN resolvedBy
                           /\ result.source # "manual"
                        THEN resolvedBy[normalized] ELSE NoPromise,
         resolvedEarlier |-> IF normalized \in DOMAIN firstResolved
                             THEN <<firstResolved[normalized]>> ELSE <<>>]

\* The calls that have not returned yet.
Awaiting == SelectSeq(calls, LAMBDA c : c.state = "awaiting")

InitLookup ==
    /\ openChainResolvedCache = EmptyMap
    /\ openChainSignatureCache = EmptyMap
    /\ requests = <<>>
    /\ calls = <<>>
    /\ issued = 0
    /\ cleared = 0
    /\ resolvedBy = EmptyMap
    /\ firstResolved = EmptyMap

\* The transfer(address,uint256) rule of tryDecodeFunctionData.
TransferName == SignatureName("transfer(address,uint256)")
tryDecodeTransfer(data) ==
    LET params == Slice(data, 10, Len(data))
        recipientPadded == Slice(params, 0, WordChars)
        recipient == Prefix0x \o Slice(recipientPadded, 24,
                                       Len(recipientPadded))
        amountHex == Slice(params, WordChars, 2 * WordChars)
        amount == BigNumberFromHex(amountHex)
    IN  IF amount.threw
        THEN manualResult(TransferName, NoParams,
                 "Failed to decode transfer function parameters")
        ELSE manualResult(TransferName,
                 [k \in {"recipient", "amount"} |->
                     IF k = "recipient" THEN ToLowerCase(recipient)
                     ELSE ToDecimal(amount.value)],
                 NoError)

\* The first statement of tryDecodeFunctionData: no data, no result.
NeverNull(data) == FALSE
ReturnsNull(data) == data = <<>> \/ data = Prefix0x

\* The manual rule that takes a selector, as the chain of comparisons
\* `functionSignature === '0x...'` finds it.  Of the ten rules the model has
\* the first and transfer; its call data has no selector of the others.
NoManualRule(functionSignature) == "none"
ManualRule(functionSignature) ==
    IF functionSignature = MultiSendSelector THEN "multiSend"
    ELSE IF functionSignature = TransferSignature THEN "transfer"
    ELSE "none"

\* tryDecodeFunctionData(data) up to its first wait, with the synchronous
\* part of fetchOpenChainFunctionSignatures: fetch() is called, and the
\* request sent, when neither cache has the selector.  `calls` keeps the
\* calls that still wait and those that returned since the last call.
CallTryDecodeFunctionData ==
    /\ UNCHANGED <<decodeVars, hashVars, otherVars>>
    /\ issued < MaxCalls
    /\ issued' = issued + 1
    /\ UNCHANGED <<openChainResolvedCache, cleared, resolvedBy, firstResolved>>
    /\ \E data \in CallData :
           LET functionSignature == Slice(data, 0, 10)
               normalized == CacheKey(functionSignature)
           IN  IF ReturnsNull(data)
               THEN /\ calls' = Append(Awaiting,
                           CallRecord(data, "null", NoPromise, <<>>, NoResult))
                    /\ UNCHANGED <<requests, openChainSignatureCache>>
               ELSE IF ManualRule(functionSignature) = "multiSend"
               THEN /\ calls' = Append(Awaiting,
                           CallRecord(data, "done", NoPromise, <<>>,
                                      tryDecodeMultiSend(data)))
                    /\ UNCHANGED <<requests, openChainSignatureCache>>
               ELSE IF ManualRule(functionSignature) = "transfer"
               THEN /\ calls' = Append(Awaiting,
                           CallRecord(data, "done", NoPromise, <<>>,
                                      tryDecodeTransfer(data)))
                    /\ UNCHANGED <<requests, openChainSignatureCache>>
               ELSE IF normalized \in DOMAIN openChainResolvedCache
               THEN /\ calls' = Append(Awaiting,
                           CallRecord(data, "done", NoPromise,
                               openChainResolvedCache[normalized],
                               openChainOutcome(data, functionSignature, FALSE,
                                                openChainResolvedCache[normalized])))
                    /\ UNCHANGED <<requests, openChainSignatureCache>>
               ELSE IF normalized \in DOMAIN openChainSignatureCache
               THEN /\ calls' = Append(Awaiting,
                           CallRecord(data, "awaiting",
                                      openChainSignatureCache[normalized], <<>>,
                                      NoResult))
                    /\ UNCHANGED <<requests, openChainSignatureCache>>
               ELSE /\ Len(requests) < MaxRequests
                    /\ requests' = Append(requests,
                           [selector |-> normalized, state |-> "inflight",
                            kind |-> "", rejected |-> FALSE, value |-> <<>>,
                            clearsAtStart |-> cleared])
                    /\ openChainSignatureCache' =
                           MapSet(openChainSignatureCache, normalized, Len(requests) + 1)
                    /\ calls' = Append(Awaiting,
                           CallRecord(data, "awaiting", Len(requests) + 1,
                                      <<>>, NoResult))

\* What a call that waits for lookup promise r returns once r has settled
\* with `value` (or rejected).
Resumed(call, rejected, value) ==
    [call EXCEPT !.state = "done", !.sigs = value,
                 !.result = openChainOutcome(call.data, call.functionSignature,
                                             rejected, value)]

\* The service answers request r (or the request fails): the rest of the
\* lookup promise runs, with its catch and finally blocks, and settles it.
\* The calls that wait for the promise resume as microtasks before anything
\* else runs; each only computes its own result from the settled value.
SettleLookup ==
    /\ UNCHANGED <<decodeVars, hashVars, otherVars>>
    /\ UNCHANGED <<issued, cleared>>
    /\ \E r \in InFlight :
           \E response \in Responses(requests[r].selector) :
               LET normalized == requests[r].selector
                   value == LookupValue(normalized, response)
                   rejected == LookupRejects(normalized, response)
               IN  /\ openChainResolvedCache' =
                          MapSet(openChainResolvedCache, normalized, value)
                   /\ openChainSignatureCache' =
                          MapDelete(openChainSignatureCache, normalized)
                   /\ requests' = [requests EXCEPT ![r] =
                          [@ EXCEPT !.state = "settled", !.kind = response.kind,
                                    !.rejected = rejected, !.value = value]]
                   /\ calls' = [c \in 1..Len(calls) |->
                          IF calls[c].state = "awaiting" /\ calls[c].promise = r
                          THEN Resumed(calls[c], rejected, value)
                          ELSE calls[c]]
                   /\ resolvedBy' = MapSet(resolvedBy, normalized, r)
                   /\ firstResolved' =
                          IF normalized \in DOMAIN firstResolved
                          THEN firstResolved
                          ELSE MapSet(firstResolved, normalized, value)

\* __testing__.clearOpenChainCaches()
clearOpenChainCaches ==
    /\ UNCHANGED <<decodeVars, hashVars, otherVars>>
    /\ cleared < MaxClears
    /\ openChainSignatureCache' = EmptyMap
    /\ openChainResolvedCache' = EmptyMap
    /\ cleared' = cleared + 1
    /\ resolvedBy' = EmptyMap
    /\ firstResolved' = EmptyMap
    /\ UNCHANGED <<requests, calls, issued>>

NextLookup ==
    \/ CallTryDecodeFunctionData
    \/ SettleLookup
    \/ clearOpenChainCaches

(***************************************************************************)
(* safeHashesCalculator.ts                                                 *)
(***************************************************************************)

\* String.prototype.trim, for the white space of the model (the space).
RECURSIVE TrimStart(_)
TrimStart(s) == IF s # <<>> /\ Head(s) = " " THEN TrimStart(Tail(s)) ELSE s
RECURSIVE TrimEnd(_)
TrimEnd(s) ==
    IF s # <<>> /\ s[Len(s)] = " " THEN TrimEnd(SubSeq(s, 1, Len(s) - 1))
    ELSE s
Trim(s) == TrimStart(TrimEnd(s))

RECURSIVE Split(_, _, _)
\* String.prototype.split('.'): cur is the component being read.
Split(s, cur, parts) ==
    IF s = <<>> THEN Append(parts, cur)
    ELSE IF Head(s) = "." THEN Split(Tail(s), <<>>, Append(parts, cur))
    ELSE Split(Tail(s), Append(cur, Head(s)), parts)

RECURSIVE DecimalValue(_, _)
DecimalValue(s, acc) ==
    IF s = <<>> THEN acc
    ELSE DecimalValue(Tail(s), acc * 10 + HexVal(Head(s)))

\* Number(s) for strings of digits, spaces and letters: white space around
\* is dropped, '' is 0, decimal digits are their value, anything else NaN.
Number(s) ==
    LET t == Trim(s)
    IN  IF t = <<>> THEN 0
        ELSE IF \A i \in 1..Len(t) : t[i] \in Digits THEN DecimalValue(t, 0)
        ELSE NaN

\* parts[i] || 0: an index past the end (undefined), NaN and 0 all give 0.
PartOrZero(parts, i) ==
    IF i > Len(parts) \/ parts[i] = NaN THEN 0 ELSE parts[i]

Max(a, b) == IF a > b THEN a ELSE b

RECURSIVE CompareFrom(_, _, _)
\* The for loop of compareVersions, from index i (1-based).
CompareFrom(aParts, bParts, i) ==
    IF i > Max(Len(aParts), Len(bParts)) THEN 0
    ELSE LET aVal == PartOrZero(aParts, i)
             bVal == PartOrZero(bParts, i)
         IN  IF aVal # bVal THEN aVal - bVal
             ELSE CompareFrom(aParts, bParts, i + 1)

NumberParts(v) ==
    LET parts == Split(v, <<>>, <<>>)
    IN  [i \in 1..Len(parts) |-> Number(parts[i])]

Sign(n) == IF n < 0 THEN -1 ELSE IF n > 0 THEN 1 ELSE 0

\* The place of a character in the order of characters: digits before
\* letters.
CharRank(c) == IF c \in Digits THEN HexVal(c) ELSE 16

RECURSIVE StringOrder(_, _)
\* The order of two strings of digits as strings: -1, 0 or 1.
StringOrder(s, t) ==
    IF s = <<>> /\ t = <<>> THEN 0
    ELSE IF s = <<>> THEN -1
    ELSE IF t = <<>> THEN 1
    ELSE IF CharRank(Head(s)) # CharRank(Head(t))
    THEN Sign(CharRank(Head(s)) - CharRank(Head(t)))
    ELSE StringOrder(Tail(s), Tail(t))

RECURSIVE StringCompareFrom(_, _, _)
StringCompareFrom(aParts, bParts, i) ==
    IF i > Max(Len(aParts), Len(bParts)) THEN 0
    ELSE LET aVal == IF i > Len(aParts) THEN <<"0">> ELSE aParts[i]
             bVal == IF i > Len(bParts) THEN <<"0">> ELSE bParts[i]
         IN  IF StringOrder(aVal, bVal) # 0 THEN StringOrder(aVal, bVal)
             ELSE StringCompareFrom(aParts, bParts, i + 1)

\* compareVersions with the components compared as strings.
compareVersionsAsStrings(a, b) ==
    StringCompareFrom(Split(Trim(a), <<>>, <<>>), Split(Trim(b), <<>>, <<>>), 1)

compareVersions(a, b) == CompareFrom(NumberParts(a), NumberParts(b), 1)

Version120 == <<"1", ".", "2", ".", "0">>
Version100 == <<"1", ".", "0", ".", "0">>

\* keccak256 and the ABI encoder are injective on what the model encodes:
\* a hash is the term it was computed from.
keccak256Int(hexData) == [keccak256 |-> hexData]
encodeAbi(types, values) == [types |-> types, values |-> values]

\* calculateDomainHash with the boundary version on the other side.
calculateDomainHashStrict(version, safeAddress, chainId) ==
    LET cleanVersion == Trim(version)
    IN  IF compareVersions(cleanVersion, Version120) < 0
        THEN keccak256Int(encodeAbi(<<"bytes32", "address">>,
                 <<"DOMAIN_SEPARATOR_TYPEHASH", safeAddress>>))
        ELSE keccak256Int(encodeAbi(<<"bytes32", "uint256", "address">>,
                 <<"DOMAIN_SEPARATOR_TYPEHASH", chainId, safeAddress>>))

calculateDomainHash(version, safeAddress, chainId) ==
    LET cleanVersion == Trim(version)
    IN  IF compareVersions(cleanVersion, Version120) <= 0
        THEN keccak256Int(encodeAbi(<<"bytes32", "address">>,
                 <<"DOMAIN_SEPARATOR_TYPEHASH", safeAddress>>))
        ELSE keccak256Int(encodeAbi(<<"bytes32", "uint256", "address">>,
                 <<"DOMAIN_SEPARATOR_TYPEHASH", chainId, safeAddress>>))

\* calculateSafeTxHash reading state outside its arguments: how many
\* calculations came before.
calculateSafeTxHashCounting(domainHash, messageHash) ==
    keccak256Int(<<"0x19", "0x01", domainHash, messageHash, hPhase>>)

calculateSafeTxHash(domainHash, messageHash) ==
    keccak256Int(<<"0x19", "0x01", domainHash, messageHash>>)

\* The arguments of calculateHashes other than chainId and version, which
\* the model holds fixed.
SafeAddress == "0x1234567890123456789012345678901234567890"
TxTo == "0x0000000000000000000000000000000000000000"
TxData == "0x"

\* safeTxTypehashFor with version 1.0.0 itself on the legacy side.
safeTxTypehashForInclusive(cleanVersion) ==
    IF compareVersions(cleanVersion, Version100) <= 0
    THEN "SAFE_TX_TYPEHASH_OLD" ELSE "SAFE_TX_TYPEHASH"

safeTxTypehashFor(cleanVersion) ==
    IF compareVersions(cleanVersion, Version100) < 0
    THEN "SAFE_TX_TYPEHASH_OLD" ELSE "SAFE_TX_TYPEHASH"

calculateHashes(chainId, version) ==
    LET cleanVersion == Trim(version)
        domainHash == calculateDomainHash(version, SafeAddress, chainId)
        dataHashed == keccak256Int(TxData)
        safeTxTypehash == safeTxTypehashFor(cleanVersion)
        message == encodeAbi(
            <<"bytes32", "address", "uint256", "bytes32", "uint8", "uint256",
              "uint256", "uint256", "address", "address", "uint256">>,
            <<safeTxTypehash, TxTo, "0", dataHashed, "0", "0", "0", "0",
              TxTo, TxTo, "0">>)
        messageHash == keccak256Int(message)
    IN  [threw |-> FALSE,
         domainHash |-> domainHash,
         messageHash |-> messageHash,
         safeTxHash |-> calculateSafeTxHash(domainHash, messageHash),
         encodedMessage |-> message]

(***************************************************************************)
(* SpecHash: calculateHashes called twice with two versions                *)
(***************************************************************************)

\* Versions as lists of numbers, and as the strings the functions are given.
VersionLists ==
    {<<major, minor, patch>> :
        major \in {0, 1, 2}, minor \in {0, 1, 2, 3, 10}, patch \in {0, 1}}
      \cup {<<1, 2>>, <<1, 3>>, <<1, 10>>, <<1>>, <<2>>, <<1, 2, 0, 1>>}

RECURSIVE VersionString(_)
VersionString(list) ==
    IF Len(list) = 1 THEN ToDecimal(list[1])
    ELSE VersionString(SubSeq(list, 1, Len(list) - 1))
             \o <<".">> \o ToDecimal(list[Len(list)])

Spaced(v) == <<" ">> \o v \o <<" ">>

NumericVersions ==
    {VersionString(l) : l \in VersionLists}
      \cup {Spaced(VersionString(l)) : l \in {<<1, 3, 0>>, <<1, 2, 0>>}}

\* Version strings with a component that is not a number.
NonNumericVersions ==
    { <<"1", ".", "x", ".", "0">>, <<"1", ".", "3", ".", "b">>,
      <<"a", ".", "3", ".", "0">> }

Versions == NumericVersions \cup NonNumericVersions
ChainIds == {"1", "10"}

NotCalculated == calculateHashes("", <<"0">>)

InitHash ==
    /\ hPhase = "start"
    /\ hChainId \in ChainIds
    /\ hVersionA \in Versions
    /\ hVersionB \in Versions
    /\ hCompare = 0
    /\ hResultA = NotCalculated
    /\ hResultB = NotCalculated

\* calculateHashes(chainId, ..., versionA)
CalculateHashesA ==
    /\ hPhase = "start"
    /\ hResultA' = calculateHashes(hChainId, hVersionA)
    /\ hPhase' = "first"
    /\ UNCHANGED <<hChainId, hVersionA, hVersionB, hCompare, hResultB>>
    /\ UNCHANGED <<decodeVars, lookupVars, otherVars>>

\* calculateHashes(chainId, ..., versionB): only the version differs.
CalculateHashesB ==
    /\ hPhase = "first"
    /\ hResultB' = calculateHashes(hChainId, hVersionB)
    /\ hPhase' = "both"
    /\ UNCHANGED <<hChainId, hVersionA, hVersionB, hCompare, hResultA>>
    /\ UNCHANGED <<decodeVars, lookupVars, otherVars>>

\* compareVersions(versionA, versionB)
CallCompareVersions ==
    /\ hPhase = "both"
    /\ hCompare' = compareVersions(hVersionA, hVersionB)
    /\ hPhase' = "compared"
    /\ UNCHANGED <<hChainId, hVersionA, hVersionB, hResultA, hResultB>>
    /\ UNCHANGED <<decodeVars, lookupVars, otherVars>>

NextHash ==
    \/ CalculateHashesA
    \/ CalculateHashesB
    \/ CallCompareVersions

(***************************************************************************)
(* safeHashesCalculator.ts: its own normalizeHexString, and SpecNormalize  *)
(***************************************************************************)

\* normalizeHexString of safeHashesCalculator.ts: a falsy argument is
\* returned as it is, and there is no test of the string without its prefix.
calculatorNormalizeHexString(hexString) ==
    IF hexString = <<>> THEN hexString
    ELSE LET withoutPrefix == IF StartsWith(hexString, Prefix0x)
                              THEN Slice(hexString, 2, Len(hexString))
                              ELSE hexString
         IN  IF Len(withoutPrefix) % 2 # 0
             THEN Prefix0x \o <<"0">> \o withoutPrefix
             ELSE Prefix0x \o withoutPrefix

\* The strings the normalizers are applied to: every string of up to
\* MaxHexLen characters over NormalizeChars.
MaxHexLen == 4
NormalizeChars == {"0", "x", "X", "a", "B"}
NormalizeInputs ==
    UNION {[1..n -> NormalizeChars] : n \in 0..MaxHexLen}

IdleNormalize ==
    /\ nFn = "none"
    /\ nInput = <<>>
    /\ nOnce = <<>>
    /\ nTwice = <<>>

InitNormalize ==
    /\ nFn = "none"
    /\ nInput \in NormalizeInputs
    /\ nOnce = <<>>
    /\ nTwice = <<>>

\* normalizeHexString of decoder.ts, applied to the input and to its result.
CallNormalizeHexString ==
    /\ nFn = "none"
    /\ nFn' = "decoder"
    /\ nOnce' = normalizeHexString(nInput)
    /\ nTwice' = normalizeHexString(normalizeHexString(nInput))
    /\ UNCHANGED nInput
    /\ UNCHANGED <<decodeVars, lookupVars, hashVars, parseVars, formVars,
                   listVars, loopVars>>

\* normalizeHexString of safeHashesCalculator.ts, applied in the same way.
CallCalculatorNormalizeHexString ==
    /\ nFn = "none"
    /\ nFn' = "calculator"
    /\ nOnce' = calculatorNormalizeHexString(nInput)
    /\ nTwice' = calculatorNormalizeHexString(
                     calculatorNormalizeHexString(nInput))
    /\ UNCHANGED nInput
    /\ UNCHANGED <<decodeVars, lookupVars, hashVars, parseVars, formVars,
                   listVars, loopVars>>

NextNormalize ==
    \/ CallNormalizeHexString
    \/ CallCalculatorNormalizeHexString

(***************************************************************************)
(* safeHashesCalculator.ts: parseSafeAddressInput, and SpecParse           *)
(***************************************************************************)

LowerLetters ==
    <<"a", "b", "c", "d", "e", "f", "g", "h", "i", "j", "k", "l", "m",
      "n", "o", "p", "q", "r", "s", "t", "u", "v", "w", "x", "y", "z">>
UpperLetters ==
    <<"A", "B", "C", "D", "E", "F", "G", "H", "I", "J", "K", "L", "M",
      "N", "O", "P", "Q", "R", "S", "T", "U", "V", "W", "X", "Y", "Z">>
Range(f) == {f[i] : i \in DOMAIN f}

\* toLowerCase on a character and on a string, for every ASCII letter.
LowerChar(c) ==
    IF c \in Range(UpperLetters)
    THEN LowerLetters[CHOOSE i \in 1..26 : UpperLetters[i] = c]
    ELSE c
LowerCased(s) == [i \in 1..Len(s) |-> LowerChar(s[i])]

\* The class [a-z0-9-] under the flag i.
PrefixChars ==
    Range(LowerLetters) \cup Range(UpperLetters) \cup Digits \cup {"-"}

\* The widths of the hex parts of an address and of a transaction hash.
AddressHexChars == 40
HashHexChars == 64

\* s has the text t, compared without regard to case, at position i.
TextAt(s, i, t) ==
    /\ i >= 1
    /\ i + Len(t) - 1 <= Len(s)
    /\ LowerCased(SubSeq(s, i, i + Len(t) - 1)) = LowerCased(t)

\* s has n hex digits at position i.
HexRunAt(s, i, n) ==
    /\ i >= 1
    /\ i + n - 1 <= Len(s)
    /\ \A k \in i..(i + n - 1) : s[k] \in HexChars

\* /0x[a-fA-F0-9]{40}/i matches s at position i.
AddressAt(s, i) ==
    TextAt(s, i, Prefix0x) /\ HexRunAt(s, i + 2, AddressHexChars)

\* The characters p..q of s are a match of ([a-z0-9-]+) that is followed by
\* :0x[a-fA-F0-9]{40}.
PrefixRun(s, p, q) ==
    /\ p <= q
    /\ q + 1 <= Len(s)
    /\ s[q + 1] = ":"
    /\ \A k \in p..q : s[k] \in PrefixChars
    /\ AddressAt(s, q + 2)

\* What String.prototype.match captures: NoMatch, or the text of the group
\* of the leftmost match.
NoMatch == [matched |-> FALSE, text |-> <<>>]
Match(text) == [matched |-> TRUE, text |-> text]

\* trimmedInput.match(/0x[a-fA-F0-9]{40}/i)
addressMatch(s) ==
    LET at == {i \in 1..Len(s) : AddressAt(s, i)}
    IN  IF at = {} THEN NoMatch
        ELSE Match(SubSeq(s, Min(at), Min(at) + 1 + AddressHexChars))

\* trimmedInput.match(/([a-z0-9-]+):0x[a-fA-F0-9]{40}/i)
prefixMatch(s) ==
    LET runs == {r \in (1..Len(s)) \X (1..Len(s)) : PrefixRun(s, r[1], r[2])}
        starts == {r[1] : r \in runs}
    IN  IF runs = {} THEN NoMatch
        ELSE LET r == CHOOSE x \in runs : x[1] = Min(starts)
             IN  Match(SubSeq(s, r[1], r[2]))

\* trimmedInput.match(/[?&]safe=([a-z0-9-]+):0x[a-fA-F0-9]{40}/i)
safeParamMatch(s) ==
    LET runs == {r \in (1..Len(s)) \X (1..Len(s)) :
                    /\ PrefixRun(s, r[1], r[2])
                    /\ TextAt(s, r[1] - 5, <<"s", "a", "f", "e", "=">>)
                    /\ r[1] - 6 >= 1
                    /\ s[r[1] - 6] \in {"?", "&"}}
        starts == {r[1] : r \in runs}
    IN  IF runs = {} THEN NoMatch
        ELSE LET r == CHOOSE x \in runs : x[1] = Min(starts)
             IN  Match(SubSeq(s, r[1], r[2]))

MultisigText == <<"m", "u", "l", "t", "i", "s", "i", "g", "_">>

\* trimmedInput.match(/multisig_0x[a-fA-F0-9]{40}_([a-fA-F0-9]{64})/i)
txHashMatch(s) ==
    LET afterAddress(i) == i + Len(MultisigText) + 2 + AddressHexChars
        at == {i \in 1..Len(s) :
                  /\ TextAt(s, i, MultisigText)
                  /\ AddressAt(s, i + Len(MultisigText))
                  /\ afterAddress(i) <= Len(s)
                  /\ s[afterAddress(i)] = "_"
                  /\ HexRunAt(s, afterAddress(i) + 1, HashHexChars)}
    IN  IF at = {} THEN NoMatch
        ELSE Match(SubSeq(s, afterAddress(Min(at)) + 1,
                          afterAddress(Min(at)) + HashHexChars))

\* The network table of constants.ts, as far as the parser reads it: the
\* primary network first.
NETWORKS ==
    << [value |-> "ethereum", chainId |-> "1",
        gnosisPrefix |-> <<"e", "t", "h">>],
       [value |-> "optimism", chainId |-> "10",
        gnosisPrefix |-> <<"o", "e", "t", "h">>] >>

\* A ParsedSafeAddress; NoTxHash is the absent txHash, NoParse the null.
NoTxHash == <<>>
ParsedSafeAddress(address, network, chainId, txHash) ==
    [isNull |-> FALSE, address |-> address, network |-> network,
     chainId |-> chainId, txHash |-> txHash]
NoParse ==
    [isNull |-> TRUE, address |-> <<>>, network |-> "", chainId |-> "",
     txHash |-> NoTxHash]

\* The entry NETWORKS.find returns for a prefix: its index, or 0.
FindNetwork(networkPrefix) ==
    LET found == {i \in 1..Len(NETWORKS) :
                     LowerCased(NETWORKS[i].gnosisPrefix)
                         = LowerCased(networkPrefix)}
    IN  IF found = {} THEN 0 ELSE Min(found)

\* parseSafeAddressInput with an unknown prefix treated as no prefix.
parseSafeAddressInputDefaulting(input) ==
    LET trimmedInput == Trim(input)
        address == addressMatch(trimmedInput)
        byPrefix == prefixMatch(trimmedInput)
        byParam == safeParamMatch(trimmedInput)
        networkPrefix == IF byParam.matched THEN LowerCased(byParam.text)
                         ELSE IF byPrefix.matched
                              THEN LowerCased(byPrefix.text)
                              ELSE <<>>
        hash == txHashMatch(trimmedInput)
        network == FindNetwork(networkPrefix)
    IN  IF input = <<>> \/ ~address.matched THEN NoParse
        ELSE ParsedSafeAddress(
                 address.text,
                 IF network # 0 THEN NETWORKS[network].value ELSE "ethereum",
                 IF network # 0 THEN NETWORKS[network].chainId ELSE "1",
                 IF hash.matched THEN hash.text ELSE NoTxHash)

parseSafeAddressInput(input) ==
    LET trimmedInput == Trim(input)
        address == addressMatch(trimmedInput)
        byPrefix == prefixMatch(trimmedInput)
        byParam == safeParamMatch(trimmedInput)
        networkPrefix == IF byParam.matched THEN LowerCased(byParam.text)
                         ELSE IF byPrefix.matched
                              THEN LowerCased(byPrefix.text)
                              ELSE <<>>
        hash == txHashMatch(trimmedInput)
        network == FindNetwork(networkPrefix)
    IN  IF input = <<>> \/ ~address.matched THEN NoParse
        ELSE IF networkPrefix # <<>> /\ network = 0 THEN NoParse
        ELSE ParsedSafeAddress(
                 address.text,
                 IF network # 0 THEN NETWORKS[network].value ELSE "ethereum",
                 IF network # 0 THEN NETWORKS[network].chainId ELSE "1",
                 IF hash.matched THEN hash.text ELSE NoTxHash)

\* The inputs of the parser, each with what it was written from: the Safe
\* address, the prefix in front of it (NoPrefix when there is none) and the
\* transaction hash of its id (NoTxHash when there is none).
SafeAddressText ==
    Prefix0x \o [i \in 1..AddressHexChars |-> IF i % 2 = 1 THEN "C" ELSE "7"]
TxHashHex == [i \in 1..HashHexChars |-> IF i % 2 = 1 THEN "c" ELSE "9"]
NoPrefix == <<>>
GivenPrefixes ==
    { <<"e", "t", "h">>, <<"E", "T", "H">>, <<"o", "e", "t", "h">>,
      <<"z", "z", "z">>, <<"x", "-", "1">> }
HomeUrl ==
    <<"h", "t", "t", "p", "s", ":", "/", "/", "a", "p", "p", ".", "s",
      "a", "f", "e", ".", "g", "l", "o", "b", "a", "l", "/", "h", "o",
      "m", "e", "?", "s", "a", "f", "e", "=">>
TxUrl ==
    <<"h", "t", "t", "p", "s", ":", "/", "/", "a", "p", "p", ".", "s",
      "a", "f", "e", ".", "g", "l", "o", "b", "a", "l", "/", "t", "r",
      "a", "n", "s", "a", "c", "t", "i", "o", "n", "s", "/", "t", "x",
      "?", "i", "d", "=">>
SafeParam == <<"&", "s", "a", "f", "e", "=">>
NoAddressText ==
    <<"n", "o", "t", " ", "a", " ", "v", "a", "l", "i", "d", " ", "a",
      "d", "d", "r", "e", "s", "s">>

ParseCase(text, prefix, txHash, hasAddress) ==
    [text |-> text, prefix |-> prefix, txHash |-> txHash,
     hasAddress |-> hasAddress]

\* multisig_<safe address>_<hash>
MultisigId(hash) == MultisigText \o SafeAddressText \o <<"_">> \o hash

UnpaddedCases ==
    { ParseCase(SafeAddressText, NoPrefix, NoTxHash, TRUE),
      ParseCase(TxUrl \o MultisigId(Prefix0x \o TxHashHex), NoPrefix,
                Prefix0x \o TxHashHex, TRUE),
      ParseCase(NoAddressText, NoPrefix, NoTxHash, FALSE),
      ParseCase(<<>>, NoPrefix, NoTxHash, FALSE) }
      \cup { ParseCase(p \o <<":">> \o SafeAddressText, p, NoTxHash, TRUE) :
                p \in GivenPrefixes }
      \cup { ParseCase(HomeUrl \o p \o <<":">> \o SafeAddressText, p,
                       NoTxHash, TRUE) : p \in GivenPrefixes }
      \cup { ParseCase(TxUrl \o MultisigId(Prefix0x \o TxHashHex)
                           \o SafeParam \o p \o <<":">> \o SafeAddressText,
                       p, Prefix0x \o TxHashHex, TRUE) : p \in GivenPrefixes }
      \cup { ParseCase(TxUrl \o MultisigId(TxHashHex)
                           \o SafeParam \o p \o <<":">> \o SafeAddressText,
                       p, TxHashHex, TRUE) : p \in GivenPrefixes }

\* Each input as it is, between spaces, and with a space after it.
ParseCases ==
    UnpaddedCases
      \cup { [c EXCEPT !.text = <<" ", " ">> \o c.text \o <<" ", " ">>] :
                c \in UnpaddedCases }
      \cup { [c EXCEPT !.text = c.text \o <<" ">>] : c \in UnpaddedCases }

IdleParse ==
    /\ pCase = ParseCase(<<>>, NoPrefix, NoTxHash, FALSE)
    /\ pDone = FALSE
    /\ pResult = NoParse

InitParse ==
    /\ pCase \in ParseCases
    /\ pDone = FALSE
    /\ pResult = NoParse

CallParseSafeAddressInput ==
    /\ ~pDone
    /\ pDone' = TRUE
    /\ pResult' = parseSafeAddressInput(pCase.text)
    /\ UNCHANGED pCase
    /\ UNCHANGED <<decodeVars, lookupVars, hashVars, normVars, formVars,
                   listVars, loopVars>>

NextParse == CallParseSafeAddressInput

(***************************************************************************)
(* use-transaction-calculation.ts: fetchFromApiAndSetForm, and SpecForm    *)
(***************************************************************************)

\* The most invocations of fetchFromApiAndSetForm in a run.
MaxInvocations == 2

\* The nonces the user types into the form; "" is the empty field.
Nonces == {"", "7", "8"}

\* What the Safe Transaction Service holds under a nonce at the time of a
\* request: the pending transaction can be replaced between two requests.
Payloads == {"first proposal", "replacement"}
SafeVersions == {"1.3.0", "1.4.1"}

\* The TransactionParams fetchTransactionDataFromApi resolves with: `fields`
\* stands for to, value, data, operation, safeTxGas, baseGas, gasPrice,
\* gasToken and refundReceiver, which come from one transaction of the list.
TransactionParams(fields, nonce, version) ==
    [fields |-> fields, nonce |-> nonce, version |-> version]

\* How a call of fetchTransactionDataFromApi settles.
NoTransactionParams == TransactionParams("", "", "")
Fulfilled(txParams) == [state |-> "fulfilled", txParams |-> txParams]
Rejected == [state |-> "rejected", txParams |-> NoTransactionParams]
fetchTransactionDataFromApi(nonce) ==
    {Fulfilled(TransactionParams(f, nonce, v)) :
        f \in Payloads, v \in SafeVersions} \cup {Rejected}

\* The form after construction with network, address and nonce in the URL.
DefaultFields == "defaults"
InitForm ==
    /\ form = [network |-> "ethereum", address |-> "0xSafe", nonce |-> "7",
               fields |-> DefaultFields, version |-> "1.3.0",
               method |-> "api", apiError |-> FALSE]
    /\ isApiFetching = FALSE
    /\ invocations = <<>>

\* The invocations that have not settled; each invocation records the ones
\* that had not when it was made.
StillAwaiting ==
    {i \in 1..Len(invocations) : invocations[i].state = "awaiting"}

\* The user edits the nonce field.
EditNonce ==
    /\ \E nonce \in Nonces \ {form.nonce} :
           form' = [form EXCEPT !.nonce = nonce]
    /\ UNCHANGED <<isApiFetching, invocations>>
    /\ UNCHANGED <<decodeVars, lookupVars, hashVars, normVars, parseVars,
                   listVars, loopVars>>

\* fetchFromApiAndSetForm up to its await: it reads the form and either
\* reports the missing data or sends the request.
fetchFromApiAndSetForm ==
    /\ Len(invocations) < MaxInvocations
    /\ IF form.network = "" \/ form.address = "" \/ form.nonce = ""
       THEN /\ form' = [form EXCEPT !.apiError = TRUE]
            /\ UNCHANGED <<isApiFetching, invocations>>
       ELSE /\ isApiFetching' = TRUE
            /\ form' = [form EXCEPT !.apiError = FALSE]
            /\ invocations' = Append(invocations,
                   [nonce |-> form.nonce, state |-> "awaiting",
                    txParams |-> NoTransactionParams,
                    awaitingAtCall |-> StillAwaiting])
    /\ UNCHANGED <<decodeVars, lookupVars, hashVars, normVars, parseVars,
                   listVars, loopVars>>

\* The form after the statements that follow the await of invocation i.
SetForm(i, txParams) ==
    [form EXCEPT !.fields = txParams.fields,
                 !.nonce = IF txParams.nonce # "" THEN txParams.nonce ELSE @,
                 !.version = IF txParams.version \notin {"", "unknown"}
                             THEN txParams.version ELSE @,
                 !.method = "direct"]

\* The request of invocation i settles and the rest of the invocation runs:
\* the try block after the await or the catch block, then the finally block.
ResumeFetchFromApiAndSetForm ==
    /\ \E i \in 1..Len(invocations) :
           /\ invocations[i].state = "awaiting"
           /\ \E outcome \in fetchTransactionDataFromApi(invocations[i].nonce) :
                  /\ invocations' = [invocations EXCEPT ![i] =
                         [@ EXCEPT !.state = outcome.state,
                                   !.txParams = outcome.txParams]]
                  /\ form' = IF outcome.state = "fulfilled"
                             THEN SetForm(i, outcome.txParams)
                             ELSE [form EXCEPT !.apiError = TRUE]
    /\ isApiFetching' = FALSE
    /\ UNCHANGED <<decodeVars, lookupVars, hashVars, normVars, parseVars,
                   listVars, loopVars>>

IdleForm == InitForm

NextForm ==
    \/ EditNonce
    \/ fetchFromApiAndSetForm
    \/ ResumeFetchFromApiAndSetForm

(***************************************************************************)
(* TransactionList.tsx: the effect that decodes the list, and SpecList     *)
(***************************************************************************)

\* The most values the transactions prop takes in a run; the prop is
\* identified by the number of the render that brought it.
MaxLists == 3

\* One run of the effect: the list its closure holds, its `cancelled`
\* variable, how decodeAll has ended ("running" while it has not), whether
\* `cancelled` was set by then and whether it called setDecodedFunctions.
EffectRun(list) ==
    [list |-> list, cancelled |-> FALSE, state |-> "running",
     cancelledAtEnd |-> FALSE, wrote |-> FALSE]

\* The decodedFunctions state: the initial [], or what a run has set, with
\* the prop and the run's `cancelled` at that moment.
InitialDecodedFunctions ==
    [written |-> FALSE, list |-> 0, value |-> "empty", transactionsAtWrite |-> 0,
     afterCleanup |-> FALSE]

\* The component has rendered for the first time; React has not run the
\* effect yet.
InitList ==
    /\ propTransactions = 1
    /\ mounted = TRUE
    /\ effectsPending = TRUE
    /\ effectRuns = <<>>
    /\ decodedFunctions = InitialDecodedFunctions

\* The parent renders the component with another transactions array.  React
\* commits the render and runs the effects of that commit afterwards; it
\* effectRuns the ones still pending before it renders again.
RenderWithTransactions ==
    /\ mounted
    /\ ~effectsPending
    /\ propTransactions < MaxLists
    /\ propTransactions' = propTransactions + 1
    /\ effectsPending' = TRUE
    /\ UNCHANGED <<mounted, effectRuns, decodedFunctions>>
    /\ UNCHANGED <<decodeVars, lookupVars, hashVars, normVars, parseVars,
                   formVars, loopVars>>

\* The component is removed; React runs the cleanup of its effect
\* afterwards.
Unmount ==
    /\ mounted
    /\ ~effectsPending
    /\ mounted' = FALSE
    /\ effectsPending' = TRUE
    /\ UNCHANGED <<propTransactions, effectRuns, decodedFunctions>>
    /\ UNCHANGED <<decodeVars, lookupVars, hashVars, normVars, parseVars,
                   formVars, loopVars>>

\* React runs the pending effects: the cleanup of the previous run of the
\* effect (cancelled = true), then, unless the component is gone, the effect
\* for the current prop, which starts decodeAll.
FlushPassiveEffects ==
    /\ effectsPending
    /\ effectsPending' = FALSE
    /\ LET cleaned == [r \in 1..Len(effectRuns) |->
                          IF r = Len(effectRuns)
                          THEN [effectRuns[r] EXCEPT !.cancelled = TRUE]
                          ELSE effectRuns[r]]
       IN  effectRuns' = IF mounted
                         THEN Append(cleaned, EffectRun(propTransactions))
                         ELSE cleaned
    /\ UNCHANGED <<propTransactions, mounted, decodedFunctions>>
    /\ UNCHANGED <<decodeVars, lookupVars, hashVars, normVars, parseVars,
                   formVars, loopVars>>

\* decodeAll without the test of `cancelled`.
SetsStateAlways(run) == TRUE

\* Whether decodeAll calls setDecodedFunctions when its await is over.
SetsState(run) == ~run.cancelled

\* The Promise.all of run r settles and the rest of decodeAll runs: the
\* results are set, or an array of nulls in the catch block, unless the run
\* is cancelled.  React drops a state update of a component that is gone.
DecodeAllSettles ==
    /\ \E r \in 1..Len(effectRuns) :
           /\ effectRuns[r].state = "running"
           /\ \E outcome \in {"resolved", "rejected"} :
                  LET sets == SetsState(effectRuns[r])
                  IN  /\ effectRuns' = [effectRuns EXCEPT ![r] =
                             [@ EXCEPT !.state = outcome, !.wrote = sets,
                                       !.cancelledAtEnd =
                                           effectRuns[r].cancelled]]
                      /\ decodedFunctions' =
                             IF sets /\ mounted
                             THEN [written |-> TRUE,
                                   list |-> effectRuns[r].list,
                                   value |-> IF outcome = "resolved"
                                             THEN "results" ELSE "nulls",
                                   transactionsAtWrite |-> propTransactions,
                                   afterCleanup |-> effectRuns[r].cancelled]
                             ELSE decodedFunctions
    /\ UNCHANGED <<propTransactions, mounted, effectsPending>>
    /\ UNCHANGED <<decodeVars, lookupVars, hashVars, normVars, parseVars,
                   formVars, loopVars>>

\* The component before it exists, for the other specifications.
IdleList == InitList

NextList ==
    \/ RenderWithTransactions
    \/ Unmount
    \/ FlushPassiveEffects
    \/ DecodeAllSettles

(***************************************************************************)
(* decoder.ts: the while loop of decodeMultiSendTransactions pass by pass, *)
(* and SpecLoop                                                            *)
(***************************************************************************)

\* The most transactions the loop pushes in a run of the model.
MaxIterations == 4

\* A data length word that parseInt reads as -n: a minus sign, the hex
\* digits of n, and characters that are no hex digits up to the width of
\* the word.
NegativeWord(n) ==
    LET digits == <<"-">> \o ToHex(n)
    IN  digits \o [i \in 1..(WordChars - Len(digits)) |-> "-"]

\* One entry whose data length word is negative.
NegativeLengths == {0, 1, 85, 100}
NegativeLengthInputs ==
    { Prefix0x \o <<"0", "0">> \o AddrLower \o Word(0) \o NegativeWord(n) :
        n \in NegativeLengths }

\* The inputs of the loop: bundles, whole and cut short at every length,
\* bundles with a character that is no hex digit, and entries with a
\* negative data length.
LoopInputs ==
    UNION {{Prefix0x \o t : t \in Prefixes(b)} : b \in Bundles}
      \cup UNION {{Prefix0x \o c : c \in Corrupted(b)} : b \in Bundles}
      \cup NegativeLengthInputs
      \cup {<<>>}

\* hexData of decodeMultiSendTransactions(data)
HexDataOf(data) ==
    LET normalizedData == normalizeHexString(data)
    IN  IF StartsWith(normalizedData, Prefix0x)
        THEN Slice(normalizedData, 2, Len(normalizedData))
        ELSE normalizedData

IdleLoop ==
    /\ whileData = <<>>
    /\ whilePhase = "idle"
    /\ whileIndex = 0
    /\ whilePushed = 0
    /\ whileVisited = {}

InitLoop ==
    /\ whileData \in LoopInputs
    /\ whilePhase = "idle"
    /\ whileIndex = 0
    /\ whilePushed = 0
    /\ whileVisited = {}

\* decodeMultiSendTransactions(whileData) up to the loop.
EnterLoop ==
    /\ whilePhase = "idle"
    /\ whilePhase' = IF HexDataOf(whileData) = <<>> THEN "returned"
                     ELSE "running"
    /\ UNCHANGED <<whileData, whileIndex, whilePushed, whileVisited>>
    /\ UNCHANGED <<decodeVars, lookupVars, hashVars, normVars, parseVars,
                   formVars, listVars>>

\* The test of the loop condition and, when it holds, one pass through the
\* body.  whileIndex is currentIndex, whilePushed is transactions.length and
\* whileVisited holds the values currentIndex had at earlier tests.
LoopPass ==
    /\ whilePhase = "running"
    /\ whilePushed < MaxIterations
    /\ LET hexData == HexDataOf(whileData)
       IN  IF ~Less(whileIndex, Len(hexData))
           THEN /\ whilePhase' = "returned"
                /\ UNCHANGED <<whileIndex, whilePushed, whileVisited>>
           ELSE LET pass == MultiSendIteration(hexData, whileIndex)
                IN  IF pass.threw
                    THEN /\ whilePhase' = "thrown"
                         /\ UNCHANGED <<whileIndex, whilePushed, whileVisited>>
                    ELSE /\ whileIndex' = pass.currentIndex
                         /\ whilePushed' = whilePushed + 1
                         /\ whileVisited' = whileVisited \cup {whileIndex}
                         /\ UNCHANGED whilePhase
    /\ UNCHANGED whileData
    /\ UNCHANGED <<decodeVars, lookupVars, hashVars, normVars, parseVars,
                   formVars, listVars>>

NextLoop ==
    \/ EnterLoop
    \/ LoopPass

(***************************************************************************)
(* The specifications                                                      *)
(***************************************************************************)

IdleHash ==
    /\ hPhase = "idle"
    /\ hChainId = ""
    /\ hVersionA = <<>>
    /\ hVersionB = <<>>
    /\ hCompare = 0
    /\ hResultA = NotCalculated
    /\ hResultB = NotCalculated

\* The other specifications at rest.
IdleOthers ==
    IdleNormalize /\ IdleParse /\ IdleForm /\ IdleList /\ IdleLoop

\* The state before any call, for each specification.
InitOfDecode == InitDecode /\ InitLookup /\ IdleHash /\ IdleOthers

SpecDecode == InitOfDecode /\ [][NextDecode]_vars

SpecLookup == InitOfDecode /\ [][NextLookup]_vars

InitOfHash == InitDecode /\ InitLookup /\ InitHash /\ IdleOthers

SpecHash == InitOfHash /\ [][NextHash]_vars

InitOfNormalize ==
    /\ InitDecode /\ InitLookup /\ IdleHash
    /\ InitNormalize /\ IdleParse /\ IdleForm /\ IdleList /\ IdleLoop

SpecNormalize == InitOfNormalize /\ [][NextNormalize]_vars

InitOfParse ==
    /\ InitDecode /\ InitLookup /\ IdleHash
    /\ IdleNormalize /\ InitParse /\ IdleForm /\ IdleList /\ IdleLoop

SpecParse == InitOfParse /\ [][NextParse]_vars

InitOfForm ==
    /\ InitDecode /\ InitLookup /\ IdleHash
    /\ IdleNormalize /\ IdleParse /\ InitForm /\ IdleList /\ IdleLoop

SpecForm == InitOfForm /\ [][NextForm]_vars

InitOfList ==
    /\ InitDecode /\ InitLookup /\ IdleHash
    /\ IdleNormalize /\ IdleParse /\ IdleForm /\ InitList /\ IdleLoop

SpecList == InitOfList /\ [][NextList]_vars

InitOfLoop ==
    /\ InitDecode /\ InitLookup /\ IdleHash
    /\ IdleNormalize /\ IdleParse /\ IdleForm /\ IdleList /\ InitLoop

SpecLoop == InitOfLoop /\ [][NextLoop]_vars

(***************************************************************************)
(* Claims about the decode functions (SpecDecode)                          *)
(***************************************************************************)

IsHex(s) == \A i \in 1..Len(s) : s[i] \in HexChars

\* The characters of an input after its 0x prefix, if it has one.
Body(data) ==
    IF StartsWith(data, Prefix0x) THEN SubSeq(data, 3, Len(data)) ELSE data

\* The fixed part of a packed entry: operation, target, value, data length.
HeaderChars == OperationChars + AddressChars + WordChars + WordChars

RECURSIVE CompleteEntries(_, _)
\* Whether the hex characters from offset `at` on are complete entries: each
\* has its whole header and the number of data bytes its header declares.
CompleteEntries(hexData, at) ==
    IF at = Len(hexData) THEN TRUE
    ELSE IF Len(hexData) < at + HeaderChars THEN FALSE
    ELSE LET declared ==
                 2 * ParseIntHex(SubSeq(hexData, at + HeaderChars - WordChars + 1,
                                        at + HeaderChars))
         IN  /\ Len(hexData) >= at + HeaderChars + declared
             /\ CompleteEntries(hexData, at + HeaderChars + declared)

\* An input of whole bytes of hex that ends inside an entry.
EndsInsideEntry(data) ==
    /\ IsHex(Body(data))
    /\ Len(Body(data)) % 2 = 0
    /\ ~CompleteEntries(Body(data), 0)

\* C2: decodeMultiSendTransactions surfaces a failure, instead of returning
\* transactions, whenever the input ends before a complete entry (operation,
\* target, value, data length and the declared data bytes) has been read.
C2_TruncatedBundleFails ==
    (dFn = "decodeMultiSendTransactions" /\ EndsInsideEntry(dInput))
        => dOutcome.threw

\* The case of C2: a bundle cut inside an entry was given to
\* decodeMultiSendTransactions.
C2_Witness ==
    /\ dFn = "decodeMultiSendTransactions"
    /\ EndsInsideEntry(dInput)
    /\ Len(Body(dInput)) > HeaderChars

\* An input that is not a packed bundle: a character that is no hex digit, or
\* an end inside an entry.
NotABundle(normalizedData) ==
    \/ ~IsHex(Body(normalizedData))
    \/ ~CompleteEntries(Body(normalizedData), 0)

\* C3: for every non-empty input that does not start with the multiSend
\* selector and is not a packed bundle, decodeTransactionData returns exactly
\* one DecodedTransaction with operation 0, value "0" and data equal to the
\* whole normalized input.
C3_FallsThroughToSingleCall ==
    LET normalizedData == normalizeHexString(dInput)
    IN  ( /\ dFn = "decodeTransactionData"
          /\ normalizedData # Prefix0x
          /\ ~StartsWith(normalizedData, MultiSendSelector)
          /\ NotABundle(normalizedData) )
        => /\ ~dOutcome.threw
           /\ Len(dOutcome.txs) = 1
           /\ dOutcome.txs[1].operation = 0
           /\ dOutcome.txs[1].value = <<"0">>
           /\ dOutcome.txs[1].data = normalizedData

\* The case of C3 where the fallthrough happens: the direct bundle decode
\* threw, and the single call came back.
C3_Witness ==
    /\ dFn = "decodeTransactionData"
    /\ ~StartsWith(normalizeHexString(dInput), MultiSendSelector)
    /\ decodeMultiSendTransactions(normalizeHexString(dInput)).threw
    /\ ~dOutcome.threw
    /\ Len(dOutcome.txs) = 1
    /\ dOutcome.txs[1].data = normalizeHexString(dInput)

\* Whether the parameters of a multiSend(bytes) call cannot be decoded: the
\* offset word, the length word at the offset or the declared bytes are
\* missing, or a word is no hex number.
ParamsUndecodable(normalizedData) ==
    LET params == SubSeq(normalizedData, 11, Len(normalizedData))
        offsetWord == SubSeq(params, 1, WordChars)
        offsetChars == 2 * ParseIntHex(offsetWord)
        lengthWord == SubSeq(params, offsetChars + 1, offsetChars + WordChars)
        lengthChars == 2 * ParseIntHex(lengthWord)
    IN  \/ Len(params) < WordChars
        \/ ~IsHex(offsetWord)
        \/ Len(params) < offsetChars + WordChars
        \/ ~IsHex(lengthWord)
        \/ Len(params) < offsetChars + WordChars + lengthChars

C7_DataLengthIsByteLength ==
    (dFn # "none" /\ ~dOutcome.threw)
        => \A i \in 1..Len(dOutcome.txs) :
               2 * dOutcome.txs[i].dataLength = Len(dOutcome.txs[i].data) - 2

\* The case of C7: a call returned a transaction.
C7_Witness ==
    /\ dFn = "decodeRegularFunctionCall"
    /\ ~dOutcome.threw
    /\ Len(dOutcome.txs) = 1

(***************************************************************************)
(* Claims about the signature lookup (SpecLookup)                          *)
(***************************************************************************)

\* Whether a call went on to the lookup, past the resolved cache.
Looked(call) == call.promise # NoPromise

SameSelector(a, b) ==
    ToLowerCase(a.functionSignature) = ToLowerCase(b.functionSignature)

\* Call j was made while the request that call i waits for was in flight.
IssuedBeforeSettled(i, j) ==
    /\ i < j
    /\ Looked(calls[i])
    /\ Looked(calls[j])
    /\ SameSelector(calls[i], calls[j])
    /\ calls[i].promise \in calls[j].inFlightAtCall

\* Every caller that has returned got the value of the request it waited for.
ReceivesRequestResult(call) ==
    (call.state = "done" /\ Looked(call))
        => /\ requests[call.promise].state = "settled"
           /\ call.sigs = requests[call.promise].value

\* C1 as amended: lookups of the same selector (compared case-insensitively)
\* that are issued while no resolved cache entry for it exists and before the
\* first of them has settled, with no clearOpenChainCaches call between
\* them, send exactly one network request, and every caller receives the
\* result of that one request.
C1_OneRequestUnlessCleared ==
    /\ \A i, j \in 1..Len(calls) :
           (IssuedBeforeSettled(i, j) /\ calls[i].clears = calls[j].clears)
               => calls[j].promise = calls[i].promise
    /\ \A i \in 1..Len(calls) : ReceivesRequestResult(calls[i])

\* C1 as stated: the same with no condition on clearOpenChainCaches.
C1_OneRequest ==
    /\ \A i, j \in 1..Len(calls) :
           IssuedBeforeSettled(i, j) => calls[j].promise = calls[i].promise
    /\ \A i \in 1..Len(calls) : ReceivesRequestResult(calls[i])

\* The case of C1: two lookups of one selector, written in different case,
\* the second made while the first waited, have both returned.
C1_Witness ==
    \E i, j \in 1..Len(calls) :
        /\ IssuedBeforeSettled(i, j)
        /\ calls[i].functionSignature # calls[j].functionSignature
        /\ calls[i].clears = calls[j].clears
        /\ calls[i].state = "done"
        /\ calls[j].state = "done"
        /\ calls[j].sigs # <<>>

FailureKinds == {"status", "network", "json"}

\* C5: when the remote lookup fails (network error, non-2xx status, unusable
\* response), tryDecodeFunctionData returns a result whose error field
\* carries a message, so the outcome differs from a lookup that succeeded
\* with zero candidates.
C5_LookupFailureHasError ==
    \A i \in 1..Len(calls) :
        ( /\ calls[i].state = "done"
          /\ Looked(calls[i])
          /\ requests[calls[i].promise].kind \in FailureKinds )
        => calls[i].result.error # NoError

\* The case of C5: a call has returned whose lookup request failed.
C5_Witness ==
    \E i \in 1..Len(calls) :
        /\ calls[i].state = "done"
        /\ Looked(calls[i])
        /\ requests[calls[i].promise].kind \in FailureKinds

\* Whether a call is a lookup: it has a selector that no manual rule takes.
IsLookup(call) ==
    /\ call.state # "null"
    /\ call.functionSignature \notin {MultiSendSelector, TransferSignature}

\* C6: once a lookup for a selector has resolved, also with an empty list,
\* every later lookup for that selector returns the same candidate list
\* without sending a network request, for as long as clearOpenChainCaches
\* is not called.
C6_ResolvedStaysCached ==
    \A i \in 1..Len(calls) :
        (IsLookup(calls[i]) /\ calls[i].resolvedEarlier # <<>>)
            => /\ ~Looked(calls[i])
               /\ calls[i].sigs = calls[i].resolvedEarlier[1]

\* The case of C6: a lookup made after one for its selector had resolved.
C6_Witness ==
    \E i \in 1..Len(calls) :
        /\ IsLookup(calls[i])
        /\ calls[i].resolvedEarlier # <<>>
        /\ calls[i].state = "done"

(***************************************************************************)
(* Claims about the hash calculator (SpecHash)                             *)
(***************************************************************************)

\* The list of numbers a numeric version string was written from.
IsNumeric(v) == \E l \in VersionLists : VersionString(l) = Trim(v)
ListOf(v) == CHOOSE l \in VersionLists : VersionString(l) = Trim(v)

\* The i-th number of a version, 0 past its end.
Component(l, i) == IF i <= Len(l) THEN l[i] ELSE 0

\* Versions in numeric order, component by component from the left.
Below(l, m) ==
    \E i \in 1..Max(Len(l), Len(m)) :
        /\ Component(l, i) < Component(m, i)
        /\ \A k \in 1..(i - 1) : Component(l, k) = Component(m, k)

\* The two formats of the domain hash, and of the SafeTx type hash.
Legacy(l) == ~Below(<<1, 2, 0>>, l)
Old(l) == Below(l, <<1, 0, 0>>)

LegacyDomainHash ==
    keccak256Int(encodeAbi(<<"bytes32", "address">>,
                           <<"DOMAIN_SEPARATOR_TYPEHASH", SafeAddress>>))
ChainDomainHash(chainId) ==
    keccak256Int(encodeAbi(<<"bytes32", "uint256", "address">>,
                           <<"DOMAIN_SEPARATOR_TYPEHASH", chainId, SafeAddress>>))

BothCalculated ==
    /\ hPhase \in {"both", "compared"}
    /\ IsNumeric(hVersionA)
    /\ IsNumeric(hVersionB)

DomainHashByVersion ==
    BothCalculated
        => hResultA.domainHash =
               IF Legacy(ListOf(hVersionA)) THEN LegacyDomainHash
               ELSE ChainDomainHash(hChainId)

\* C8 as amended: calculateHashes computes domainHash from (domainTypeHash,
\* safeAddress) for every version <= 1.2.0 and from (domainTypeHash, chainId,
\* safeAddress) for every version > 1.2.0, so two calls that differ only in
\* version yield different domainHash exactly when the versions lie on
\* opposite sides of that boundary; safeTxHash differs exactly when they lie
\* on opposite sides of that boundary or of 1.0.0, below which the SafeTx
\* type hash is the old one.
C8_DomainHashBoundary ==
    /\ DomainHashByVersion
    /\ BothCalculated
           => LET a == ListOf(hVersionA)
                  b == ListOf(hVersionB)
              IN  /\ (hResultA.domainHash # hResultB.domainHash)
                         <=> (Legacy(a) # Legacy(b))
                  /\ (hResultA.safeTxHash # hResultB.safeTxHash)
                         <=> (Legacy(a) # Legacy(b) \/ Old(a) # Old(b))

\* C8 as stated: domainHash and safeTxHash differ exactly when the versions
\* lie on opposite sides of 1.2.0.
C8_BothHashesBoundary ==
    /\ DomainHashByVersion
    /\ BothCalculated
           => LET a == ListOf(hVersionA)
                  b == ListOf(hVersionB)
              IN  /\ (hResultA.domainHash # hResultB.domainHash)
                         <=> (Legacy(a) # Legacy(b))
                  /\ (hResultA.safeTxHash # hResultB.safeTxHash)
                         <=> (Legacy(a) # Legacy(b))

\* The case of C8: versions 1.2.0 and 1.10.0, on opposite sides.
C8_Witness ==
    /\ BothCalculated
    /\ ListOf(hVersionA) = <<1, 2, 0>>
    /\ ListOf(hVersionB) = <<1, 10, 0>>
    /\ hResultA.domainHash # hResultB.domainHash

\* Whether a dot-separated component of a version string is not a number.
HasNonNumericComponent(v) ==
    LET parts == Split(Trim(v), <<>>, <<>>)
    IN  \E i \in 1..Len(parts) :
            \/ parts[i] = <<>>
            \/ \E k \in 1..Len(parts[i]) : parts[i][k] \notin Digits

\* C9: calculateHashes fails with an input-validation error and returns no
\* hashes whenever a dot-separated component of the version string is not a
\* number.
C9_NonNumericVersionFails ==
    (hPhase # "start" /\ HasNonNumericComponent(hVersionA))
        => hResultA.threw

\* The case of C9: calculateHashes was given a version with such a component.
C9_Witness ==
    /\ hPhase # "start"
    /\ HasNonNumericComponent(hVersionA)

\* C10: compareVersions compares the dot-separated components as numbers
\* from left to right, not as strings: 1.2.0 is below 1.3.0 and 1.10.0 is
\* above 1.2.0.
C10_NumericComparison ==
    (hPhase = "compared" /\ IsNumeric(hVersionA) /\ IsNumeric(hVersionB))
        => Sign(hCompare) =
               IF Below(ListOf(hVersionA), ListOf(hVersionB)) THEN -1
               ELSE IF Below(ListOf(hVersionB), ListOf(hVersionA)) THEN 1
               ELSE 0

\* The case of C10: 1.10.0 compared with 1.2.0 is above it.
C10_Witness ==
    /\ hPhase = "compared"
    /\ IsNumeric(hVersionA)
    /\ IsNumeric(hVersionB)
    /\ ListOf(hVersionA) = <<1, 10, 0>>
    /\ ListOf(hVersionB) = <<1, 2, 0>>
    /\ hVersionA = Trim(hVersionA)
    /\ hCompare > 0

\* C11: calculateHashes uses the legacy Safe transaction type-hash constant
\* for every version below 1.0.0 and the current constant for every version
\* 1.0.0 and above.
C11_TypeHashBoundary ==
    (hPhase \in {"first", "both", "compared"} /\ IsNumeric(hVersionA))
        => hResultA.encodedMessage.values[1] =
               IF Old(ListOf(hVersionA)) THEN "SAFE_TX_TYPEHASH_OLD"
               ELSE "SAFE_TX_TYPEHASH"

\* The cases of C11: version 1.0.0 itself, after a version below it.
C11_Witness ==
    /\ BothCalculated
    /\ Old(ListOf(hVersionA))
    /\ ListOf(hVersionB) = <<1, 0, 0>>
    /\ hResultA.encodedMessage.values[1] = "SAFE_TX_TYPEHASH_OLD"
    /\ hResultB.encodedMessage.values[1] = "SAFE_TX_TYPEHASH"

SampleTransactions ==
    { DecodedTransaction(0, Prefix0x \o AddrLower, <<"0">>, 4,
                         Prefix0x \o TransferSelector),
      DecodedTransaction(1, Prefix0x \o AddrMixed, <<"2", "5", "5">>, 0,
                         Prefix0x) }

TxSequences == UNION {[1..n -> SampleTransactions] : n \in 0..MaxTxs}

\* One byte as two hex characters.
Byte(n) == <<HexDigitChar(n \div 16), HexDigitChar(n % 16)>>

\* The packed entry of a transaction: operation (1 byte), to (20 bytes),
\* value (32 bytes), data length (32 bytes), data.
PackTransaction(tx) ==
    Byte(tx.operation) \o Body(tx.to) \o Word(DecimalValue(tx.value, 0))
        \o Word(tx.dataLength) \o Body(tx.data)

RECURSIVE PackAll(_)
PackAll(txs) ==
    IF txs = <<>> THEN <<>>
    ELSE PackTransaction(Head(txs)) \o PackAll(Tail(txs))

\* C13: for any sequence of DecodedTransaction values, packing them into a
\* bundle and decoding it with decodeMultiSendTransactions returns the same
\* number of transactions in the same order, each with the original
\* operation, to, value, dataLength and data.
C13_RoundTrip ==
    dFn = "decodeMultiSendTransactions"
        => \A txs \in TxSequences :
               Body(dInput) = PackAll(txs) => dOutcome = Returned(txs)

\* The case of C13: the bundle of two different transactions was decoded.
C13_Witness ==
    /\ dFn = "decodeMultiSendTransactions"
    /\ \E txs \in TxSequences :
           /\ Len(txs) = 2
           /\ txs[1] # txs[2]
           /\ Body(dInput) = PackAll(txs)
           /\ dOutcome = Returned(txs)

\* multiSend(bytes) call data whose bytes argument has length zero.
EmptyWrapped == {Wrapped(<<>>, 32), Wrapped(<<>>, 64)}

\* C15: an empty bundle is valid: decoding returns an empty transaction list
\* and no error, both when the empty payload is given to
\* decodeMultiSendTransactions and when it is the zero-length bytes argument
\* of a well-formed multiSend(bytes) call given to decodeTransactionData.
C15_EmptyBundleValid ==
    /\ (dFn = "decodeMultiSendTransactions" /\ Body(dInput) = <<>>)
           => dOutcome = Returned(<<>>)
    /\ (dFn = "decodeTransactionData" /\ dInput \in EmptyWrapped)
           => dOutcome = Returned(<<>>)

\* The case of C15: decodeTransactionData was given multiSend(bytes) call
\* data with an empty bytes argument.
C15_Witness ==
    /\ dFn = "decodeTransactionData"
    /\ dInput \in EmptyWrapped
    /\ tryDecodeMultiSend(dInput).error = NoError

(***************************************************************************)
(* Claims about tryDecodeFunctionData (SpecLookup)                         *)
(***************************************************************************)

\* The selectors of the manual rules of the model.
ManualSelectors == {MultiSendSelector, TransferSignature}

HasReturned(call) == call.state = "done"

\* The number of transactions the bundle decoder obtains from a string.
TransactionCount(transactions) ==
    LET inner == decodeMultiSendTransactions(Prefix0x \o transactions)
    IN  IF inner.threw THEN 0 ELSE Len(inner.txs)

\* C14: for call data that starts with selector 0x8d80ff0a followed by valid
\* ABI-encoded dynamic bytes, the decodedTransactionsCount that
\* tryDecodeFunctionData reports equals the number of transactions obtained
\* by decoding "0x" + params.transactions with decodeMultiSendTransactions.
C14_CountAgrees ==
    \A i \in 1..Len(calls) :
        ( /\ HasReturned(calls[i])
          /\ calls[i].functionSignature = MultiSendSelector
          /\ calls[i].result.error = NoError )
        => calls[i].result.params["decodedTransactionsCount"] =
               ToDecimal(TransactionCount(
                   calls[i].result.params["transactions"]))

\* The case of C14: a wrapped bundle of one entry was decoded.
C14_Witness ==
    \E i \in 1..Len(calls) :
        /\ HasReturned(calls[i])
        /\ calls[i].functionSignature = MultiSendSelector
        /\ calls[i].result.error = NoError
        /\ calls[i].result.params["decodedTransactionsCount"] = <<"1">>

\* C16: for call data of 4 or more bytes whose selector matches no manual
\* rule and whose lookup yields zero candidates, tryDecodeFunctionData
\* returns, without throwing, a result whose name contains the raw selector
\* and whose params.rawData equals the full input.
C16_UnknownSelector ==
    \A i \in 1..Len(calls) :
        ( /\ HasReturned(calls[i])
          /\ Len(calls[i].data) >= 10
          /\ ToLowerCase(calls[i].functionSignature) \notin ManualSelectors
          /\ calls[i].sigs = <<>> )
        => /\ calls[i].result.name =
                  [text |-> "Unknown Function",
                   selector |-> SubSeq(calls[i].data, 1, 10)]
           /\ calls[i].result.params = [k \in {"rawData"} |-> calls[i].data]

\* The case of C16: a selector written in upper case, zero candidates.
C16_Witness ==
    \E i \in 1..Len(calls) :
        /\ HasReturned(calls[i])
        /\ calls[i].data = SelectorAUpper
        /\ calls[i].sigs = <<>>

NoData == {<<>>, Prefix0x}

\* C17 as amended: when the input data is empty or "0x",
\* tryDecodeFunctionData returns null: no result, no error and no lookup.
C17_NoDataReturnsNull ==
    \A i \in 1..Len(calls) :
        calls[i].data \in NoData
            => /\ calls[i].state = "null"
               /\ calls[i].promise = NoPromise

\* C17 as stated: when the input data is empty or "0x",
\* tryDecodeFunctionData returns a generic unknown-function result carrying
\* the raw selector and raw data, with no error set.
C17_NoDataReturnsUnknown ==
    \A i \in 1..Len(calls) :
        calls[i].data \in NoData
            => /\ HasReturned(calls[i])
               /\ calls[i].result.name.text = "Unknown Function"
               /\ calls[i].result.params =
                      [k \in {"rawData"} |-> calls[i].data]
               /\ calls[i].result.error = NoError

\* The case of C17: "0x" or the empty string was given while a lookup was
\* in flight, and null came back.
C17_Witness ==
    \E i \in 1..Len(calls) :
        /\ calls[i].data \in NoData
        /\ calls[i].state = "null"
        /\ calls[i].inFlightAtCall # {}

\* What the manual rule of a selector returns for call data.
ManualOutcome(data) ==
    IF Slice(data, 0, 10) = MultiSendSelector THEN tryDecodeMultiSend(data)
    ELSE tryDecodeTransfer(data)

\* C18: selector matching is case-insensitive: call data whose first 4 bytes
\* equal a manual rule's selector up to the letter case of the hex digits is
\* decoded by that manual rule, as the all-lowercase form would be.
C18_ManualRuleAnyCase ==
    \A i \in 1..Len(calls) :
        ( /\ HasReturned(calls[i])
          /\ ToLowerCase(calls[i].functionSignature) \in ManualSelectors )
        => calls[i].result =
               ManualOutcome(ToLowerCase(calls[i].functionSignature)
                   \o Slice(calls[i].data, 10, Len(calls[i].data)))

\* The case of C18: call data with the multiSend selector in upper case.
C18_Witness ==
    \E i \in 1..Len(calls) :
        /\ HasReturned(calls[i])
        /\ calls[i].functionSignature = MultiSendSelectorUpper

\* The candidates that decode the data, by their place in the list.
Decoding(sigs, data) ==
    {k \in 1..Len(sigs) : DecodesUsingSignature(sigs[k], data)}

\* C19: when the lookup returns a non-empty candidate list,
\* tryDecodeFunctionData tries the candidates in the returned order and
\* returns an openchain-sourced result named after the first candidate that
\* decodes, carrying the full candidate list; if no candidate decodes, it
\* returns the first candidate's name with error set.
C19_FirstDecodingCandidate ==
    \A i \in 1..Len(calls) :
        (HasReturned(calls[i]) /\ calls[i].sigs # <<>>)
        => LET sigs == calls[i].sigs
               decoding == Decoding(sigs, calls[i].data)
               result == calls[i].result
           IN  /\ result.source = "openchain"
               /\ result.candidates = sigs
               /\ IF decoding # {}
                  THEN /\ result.name = SignatureName(sigs[Min(decoding)])
                       /\ result.error = NoError
                  ELSE /\ result.name = SignatureName(sigs[1])
                       /\ result.error # NoError

\* The cases of C19: the second of two candidates decodes, and behind it a
\* call for which none does.
C19_Witness ==
    /\ \E i \in 1..Len(calls) :
           /\ HasReturned(calls[i])
           /\ Len(calls[i].sigs) = 2
           /\ Decoding(calls[i].sigs, calls[i].data) = {2}
    /\ \E i \in 1..Len(calls) :
           /\ HasReturned(calls[i])
           /\ Len(calls[i].sigs) = 2
           /\ Decoding(calls[i].sigs, calls[i].data) = {}

\* C20: the lookup is consulted only when no manual rule matches: for call
\* data whose selector has a manual rule, tryDecodeFunctionData returns a
\* manual-sourced result without sending a network request, whatever the
\* selector cache contains.
C20_ManualRuleNoLookup ==
    \A i \in 1..Len(calls) :
        calls[i].functionSignature \in ManualSelectors
            => /\ HasReturned(calls[i])
               /\ calls[i].result.source = "manual"
               /\ calls[i].promise = NoPromise
               /\ calls[i].answeredBy = NoPromise

\* The case of C20: multiSend call data decoded while the resolved cache
\* holds an entry under the multiSend selector.
C20_Witness ==
    \E i \in 1..Len(calls) :
        /\ calls[i].functionSignature = MultiSendSelector
        /\ HasReturned(calls[i])
        /\ MultiSendSelector \in calls[i].cachedAtCall

(***************************************************************************)
(* Claims about the normalizers (SpecNormalize)                            *)
(***************************************************************************)

\* C21: normalizing twice gives what normalizing once gives, for the
\* normalizer of the decoder and for the one of the hash calculator, on
\* every string: the empty one, prefixed even-length hex, odd-length hex and
\* input with an upper-case 0X prefix included.
C21_Idempotent ==
    nFn # "none" => nTwice = nOnce

\* An odd-length input with an upper-case prefix has been normalized twice
\* by the decoder's normalizer.
C21_Witness ==
    /\ nFn = "decoder"
    /\ StartsWith(nInput, <<"0", "X">>)
    /\ Len(nInput) % 2 = 1
    /\ nOnce # Prefix0x
    /\ nTwice = nOnce

\* The result the contract describes: one optional 0x or 0X removed, a single
\* 0 in front of an odd-length rest, 0x in front of that.
HasHexPrefix(x) == Len(x) >= 2 /\ x[1] = "0" /\ x[2] \in {"x", "X"}
ContractNormalForm(x) ==
    LET rest == IF HasHexPrefix(x) THEN SubSeq(x, 3, Len(x)) ELSE x
    IN  IF Len(rest) % 2 = 1 THEN Prefix0x \o <<"0">> \o rest
        ELSE Prefix0x \o rest

\* C22: each normalizer returns 0x followed by the input without one
\* optional 0x or 0X prefix, with a single 0 in front when the rest has odd
\* length, and exactly 0x for the empty input.
C22_NormalForm ==
    nFn # "none" => nOnce = ContractNormalForm(nInput)

(***************************************************************************)
(* Claims about the decoded target address (SpecDecode)                    *)
(***************************************************************************)

\* C23: the to field of every DecodedTransaction the decoder produces is a
\* 0x-prefixed address of 20 bytes in lower case, whatever the letter case
\* of the address in the input.
C23_ToIsLowerCaseAddress ==
    (dFn # "none" /\ ~dOutcome.threw)
        => \A i \in 1..Len(dOutcome.txs) :
              LET to == dOutcome.txs[i].to
              IN  /\ Len(to) = 2 + AddressChars
                  /\ StartsWith(to, Prefix0x)
                  /\ to = ToLowerCase(to)

(***************************************************************************)
(* Claims about parseSafeAddressInput (SpecParse)                          *)
(***************************************************************************)

\* The prefix is the prefix of an entry of the network table, letter case
\* apart.
InNetworkTable(prefix) ==
    \E i \in 1..Len(NETWORKS) :
        LowerCased(NETWORKS[i].gnosisPrefix) = LowerCased(prefix)

\* C24: parseSafeAddressInput returns nothing when the input has a prefix
\* that matches no entry of the network table, and it returns the primary
\* network (ethereum, chain id 1) when the input has an address and no
\* prefix at all.
C24_NetworkFromPrefix ==
    pDone =>
        /\ (pCase.prefix # NoPrefix /\ ~InNetworkTable(pCase.prefix))
               => pResult.isNull
        /\ (pCase.hasAddress /\ pCase.prefix = NoPrefix)
               => /\ ~pResult.isNull
                  /\ pResult.network = "ethereum"
                  /\ pResult.chainId = "1"

\* A transaction URL whose safe parameter has an unknown prefix has been
\* parsed.
C24_Witness ==
    /\ pDone
    /\ pCase.prefix = <<"z", "z", "z">>
    /\ pCase.txHash # NoTxHash
    /\ pResult.isNull

\* C25: for a Safe transaction URL whose id is multisig_<safe address>_<hash>
\* parseSafeAddressInput returns txHash equal to the hash of the id, its 0x
\* included.
C25_TxHashOfUrl ==
    (/\ pDone
     /\ StartsWith(pCase.txHash, Prefix0x)
     /\ (pCase.prefix = NoPrefix \/ InNetworkTable(pCase.prefix)))
        => /\ ~pResult.isNull
           /\ pResult.txHash = pCase.txHash

(***************************************************************************)
(* Claims about what the selector cache holds (SpecLookup)                 *)
(***************************************************************************)

\* C26: the selector cache holds an empty list for a selector only after a
\* lookup confirmed that the registry has no candidates for it; a lookup
\* that failed (network error or non-2xx status) leaves no cached empty
\* entry for the selector.
C26_EmptyMeansNotFound ==
    \A normalized \in DOMAIN openChainResolvedCache :
        openChainResolvedCache[normalized] = <<>>
            => requests[resolvedBy[normalized]].kind \notin {"network", "status"}

\* The request whose result answered a call that has returned: the one
\* it waited for, or the one that wrote the cache entry it read.
AnsweredBy(call) ==
    IF call.promise # NoPromise THEN call.promise ELSE call.answeredBy

\* C27: a lookup issued after clearOpenChainCaches is not answered with the
\* result of a network request that was started before that clear, also
\* when the request was still in flight at the clear.
C27_NoAnswerFromBeforeClear ==
    \A i \in 1..Len(calls) :
        (calls[i].state = "done" /\ AnsweredBy(calls[i]) # NoPromise)
            => requests[AnsweredBy(calls[i])].clearsAtStart >= calls[i].clears

(***************************************************************************)
(* Claims about fetchFromApiAndSetForm (SpecForm)                          *)
(***************************************************************************)

\* Two invocations overlapped: the second was made before the first settled.
\* An invocation is appended when it is made, so with two of them settled
\* the form shows which one wrote last.
BothSettled ==
    /\ Len(invocations) = 2
    /\ \A i \in 1..2 : invocations[i].state # "awaiting"

\* C28: when fetchFromApiAndSetForm is invoked again before an earlier
\* invocation has settled, then once both have settled the form fields hold
\* the transaction returned for the most recent invocation, in whatever
\* order the two responses arrive.
C28_LatestInvocationWins ==
    (/\ BothSettled
     /\ invocations[2].awaitingAtCall = {1}
     /\ invocations[2].state = "fulfilled")
        => form.fields = invocations[2].txParams.fields

(***************************************************************************)
(* Claims about the effect of TransactionList (SpecList)                   *)
(***************************************************************************)

\* C29 as stated: once the transactions prop has changed or the component
\* has unmounted, the results of the decode run started for the previous
\* list are never written to component state, whenever that run completes.
C29_NoWriteForPreviousList ==
    decodedFunctions.written
        => decodedFunctions.list = decodedFunctions.transactionsAtWrite

\* C29 as amended: once React has run the cleanup of the effect that started
\* a decode run, which it does before the effect for a changed transactions
\* prop and when the component unmounts, the results of that run are never
\* written to component state, whenever the run completes.
C29_NoWriteAfterCleanup ==
    /\ decodedFunctions.written => ~decodedFunctions.afterCleanup
    /\ \A r \in 1..Len(effectRuns) :
           effectRuns[r].cancelledAtEnd => ~effectRuns[r].wrote

\* A run for a previous list has completed after its cleanup, the component
\* still mounted and showing another list.
C29_Witness ==
    /\ mounted
    /\ \E r \in 1..Len(effectRuns) :
           /\ effectRuns[r].state # "running"
           /\ effectRuns[r].cancelledAtEnd
           /\ effectRuns[r].list # propTransactions

(***************************************************************************)
(* Claims about the loop of decodeMultiSendTransactions (SpecLoop)         *)
(***************************************************************************)

\* C30: decodeMultiSendTransactions terminates on every finite input, by
\* returning or by raising an error, also for truncated input, characters
\* that are no hex digits and declared data lengths larger than the rest of
\* the input.  hexData does not change and the body reads nothing else but
\* currentIndex, so a loop that tests its condition with a value of
\* currentIndex it has tested before does not end: a terminating run never
\* comes back to an index.
C30_Terminates ==
    whilePhase = "running" => whileIndex \notin whileVisited

====
